---- MODULE Spec2Model ----
(***************************************************************************)
(* A model of nllpy's command records (nllpy/core/commands.py) and of the  *)
(* NLLocConfig aggregate (nllpy/core/config.py).                           *)
(*                                                                         *)
(* Representation.                                                         *)
(*  - A Python float is an integer number of 1e-4 units (46.51 -> 465100). *)
(*    Python ints (grid counts, flags) are plain integers.  Float          *)
(*    arithmetic is exact at this resolution; binary rounding noise in     *)
(*    Python's division is not modelled.                                   *)
(*  - Optional[x] is a sequence: None is <<>>, a value v is <<v>>.         *)
(*  - Text is a sequence of lines, a line is a sequence of tokens.  A      *)
(*    token is a word, a formatted number (with the format that produced   *)
(*    it), a run of blanks, or a '#' comment.  str.split() drops the       *)
(*    blanks, float() and int() accept or reject a token by its kind.      *)
(*  - A raised exception is the err field of an operation's result; ""     *)
(*    means the call returned.                                             *)
(***************************************************************************)
EXTENDS Integers, Sequences, FiniteSets, TLC

VARIABLES config, file, input, result, ops, gargs, grid

vars == <<config, file, input, result, ops, gargs, grid>>

(***************************************************************************)
(* Bounds of the model.                                                    *)
(***************************************************************************)
MaxSteps == 3

None == <<>>
Some(v) == <<v>>

Abs(x) == IF x < 0 THEN -x ELSE x

Max(a, b) == IF a >= b THEN a ELSE b

(***************************************************************************)
(* Tokens and number formatting.                                           *)
(***************************************************************************)
\* Round v to a multiple of m, ties to even: the rounding of a Python
\* fixed-precision format ('.1f', '.2f', '.3f') at the model's resolution.
RoundTo(v, m) ==
    LET q == v \div m
        r == v % m
    IN  IF 2 * r < m THEN q * m
        ELSE IF 2 * r > m THEN (q + 1) * m
        ELSE IF q % 2 = 0 THEN q * m ELSE (q + 1) * m

\* The value a formatted float denotes.  "r" is repr() (the '{x}' of an
\* f-string), exact; 'f6' is finer than the model's unit, so exact too.
Quant(v, f) ==
    CASE f = "f1" -> RoundTo(v, 1000)
      [] f = "f2" -> RoundTo(v, 100)
      [] f = "f3" -> RoundTo(v, 10)
      [] OTHER    -> v

W(s) == [t |-> "word", s |-> s, v |-> 0, f |-> ""]

\* A float written with format f ("r", "f1", "f2", "f3", "f6").
N(v, f) == [t |-> "num", s |-> "", v |-> Quant(v, f), f |-> f]

\* A Python int written with '{n}'.
I(n) == [t |-> "num", s |-> "", v |-> n, f |-> "d"]

SP(n) == [t |-> "ws", s |-> "", v |-> n, f |-> ""]

\* A token that starts with '#': a whole comment line.
C(s) == [t |-> "hash", s |-> s, v |-> 0, f |-> ""]

\* float(token): accepted for every number, rejected for words.
FloatOk(tok) == tok.t = "num"

FloatOf(tok) == IF tok.f = "d" THEN tok.v * 10000 ELSE tok.v

\* int(token): accepted only for an integer literal ("-50.0" is rejected).
IntOk(tok) == tok.t = "num" /\ tok.f = "d"

IntOf(tok) == tok.v

\* int(a / b) for floats a, b: truncation toward zero.
TruncDiv(a, b) ==
    IF (a >= 0) = (b > 0) THEN Abs(a) \div Abs(b) ELSE -(Abs(a) \div Abs(b))

\* Number of decimal digits of a natural number.
RECURSIVE Digits(_)
Digits(n) == IF n < 10 THEN 1 ELSE 1 + Digits(n \div 10)

\* Length of the text of v written with '.2f'.
LenF2(v) ==
    LET q == RoundTo(v, 100)
    IN  Digits(Abs(q) \div 10000) + 3 + (IF q < 0 THEN 1 ELSE 0)

\* Number of digits after the decimal point in the text of a number token:
\* fixed for the '.Nf' formats, none for an int, and for repr() as many as
\* the value needs, at least one (46.51 -> 2, 0.0 -> 1, 0.25 -> 2).
Decimals(tok) ==
    CASE tok.f = "f1" -> 1
      [] tok.f = "f2" -> 2
      [] tok.f = "f3" -> 3
      [] tok.f = "f6" -> 6
      [] tok.f = "d"  -> 0
      [] OTHER -> IF tok.v % 10000 = 0 THEN 1
                  ELSE IF tok.v % 1000 = 0 THEN 1
                  ELSE IF tok.v % 100 = 0 THEN 2
                  ELSE IF tok.v % 10 = 0 THEN 3 ELSE 4

\* line.split(): the tokens that are not blanks.
Split(line) == SelectSeq(line, LAMBDA tok : tok.t # "ws")

\* ' '.join(parts)
RECURSIVE JoinSp(_)
JoinSp(parts) ==
    IF Len(parts) = 0 THEN <<>>
    ELSE IF Len(parts) = 1 THEN parts
    ELSE <<parts[1], SP(1)>> \o JoinSp(Tail(parts))

\* "\n\n".join(sections): one empty line between consecutive sections.
RECURSIVE JoinSections(_)
JoinSections(sections) ==
    IF Len(sections) = 0 THEN <<>>
    ELSE IF Len(sections) = 1 THEN sections[1]
    ELSE sections[1] \o << <<>> >> \o JoinSections(Tail(sections))

\* A keyword comparison that forgets upper().
UpperMissing(s) == s

\* str.upper() on the first token of a line, over the spellings the model's
\* documents use.
Upper(s) ==
    CASE s = "trans"   -> "TRANS"
      [] s = "Trans"   -> "TRANS"
      [] s = "locgrid" -> "LOCGRID"
      [] s = "layer"   -> "LAYER"
      [] s = "Layer"   -> "LAYER"
      [] s = "locsig"  -> "LOCSIG"
      [] s = "loccom"  -> "LOCCOM"
      [] s = "gtsrce"  -> "GTSRCE"
      [] s = "eqsta"   -> "EQSTA"
      [] OTHER         -> s

(***************************************************************************)
(* Command records (commands.py).                                          *)
(***************************************************************************)
ControlCommand == [message_flag |-> 1, random_seed |-> 54321]

ControlStr(c) == <<W("CONTROL"), SP(1), I(c.message_flag), SP(1), I(c.random_seed)>>

\* orig_lat, orig_lon and orig_elev are not dataclass fields: they are
\* attributes that setup_basic_grid, setup_grid_from_km and the TRANS
\* handler of the loader create on the instance.
TransCommand ==
    [transformation |-> "SIMPLE", lat_orig |-> None, lon_orig |-> None,
     rotation |-> 0, orig_lat |-> None, orig_lon |-> None, orig_elev |-> None]

\* A __str__ that tests the latitude alone.
TransStrLatOnly(tr) ==
    IF tr.lat_orig = None
    THEN [err |-> "ValueError", line |-> <<>>]
    ELSE [err |-> "",
          line |-> <<W("TRANS"), SP(1), W(tr.transformation), SP(1),
                     N(tr.lat_orig[1], "r"), SP(1),
                     IF tr.lon_orig = None THEN W("None")
                     ELSE N(tr.lon_orig[1], "r"),
                     SP(1), N(tr.rotation, "r")>>]

\* TransCommand.__str__: raises ValueError when an origin is None.
TransStr(tr) ==
    IF tr.lat_orig = None \/ tr.lon_orig = None
    THEN [err |-> "ValueError", line |-> <<>>]
    ELSE [err |-> "",
          line |-> <<W("TRANS"), SP(1), W(tr.transformation), SP(1),
                     N(tr.lat_orig[1], "r"), SP(1), N(tr.lon_orig[1], "r"),
                     SP(1), N(tr.rotation, "r")>>]

\* The arguments of a grid constructor; ox, oy, d_xy, d_xyz are Optional.
GridArgs(nx, ny, nz, ox, oy, oz, dx, dy, dz, dxy, dxyz) ==
    [num_grid_x |-> nx, num_grid_y |-> ny, num_grid_z |-> nz,
     orig_grid_x |-> ox, orig_grid_y |-> oy, orig_grid_z |-> oz,
     d_grid_x |-> dx, d_grid_y |-> dy, d_grid_z |-> dz,
     d_xy |-> dxy, d_xyz |-> dxyz]

\* A __post_init__ that lets the uniform xy spacing win over the uniform
\* xyz spacing.
GridPostInitXyFirst(a) ==
    LET dx == IF a.d_xy # None THEN a.d_xy[1]
              ELSE IF a.d_xyz # None THEN a.d_xyz[1] ELSE a.d_grid_x
        dy == IF a.d_xy # None THEN a.d_xy[1]
              ELSE IF a.d_xyz # None THEN a.d_xyz[1] ELSE a.d_grid_y
        dz == IF a.d_xyz # None THEN a.d_xyz[1] ELSE a.d_grid_z
    IN  [num_grid_x |-> a.num_grid_x, num_grid_y |-> a.num_grid_y,
         num_grid_z |-> a.num_grid_z,
         orig_grid_x |-> IF a.orig_grid_x = None
                         THEN (-(a.num_grid_x * dx)) \div 2
                         ELSE a.orig_grid_x[1],
         orig_grid_y |-> IF a.orig_grid_y = None
                         THEN (-(a.num_grid_y * dy)) \div 2
                         ELSE a.orig_grid_y[1],
         orig_grid_z |-> a.orig_grid_z,
         d_grid_x |-> dx, d_grid_y |-> dy, d_grid_z |-> dz,
         d_xy |-> a.d_xy, d_xyz |-> a.d_xyz]

\* A __post_init__ that derives the origins before it expands the
\* convenience spacings.
GridPostInitStale(a) ==
    LET dx == IF a.d_xyz # None THEN a.d_xyz[1]
              ELSE IF a.d_xy # None THEN a.d_xy[1] ELSE a.d_grid_x
        dy == IF a.d_xyz # None THEN a.d_xyz[1]
              ELSE IF a.d_xy # None THEN a.d_xy[1] ELSE a.d_grid_y
        dz == IF a.d_xyz # None THEN a.d_xyz[1] ELSE a.d_grid_z
    IN  [num_grid_x |-> a.num_grid_x, num_grid_y |-> a.num_grid_y,
         num_grid_z |-> a.num_grid_z,
         orig_grid_x |-> IF a.orig_grid_x = None
                         THEN (-(a.num_grid_x * a.d_grid_x)) \div 2
                         ELSE a.orig_grid_x[1],
         orig_grid_y |-> IF a.orig_grid_y = None
                         THEN (-(a.num_grid_y * a.d_grid_y)) \div 2
                         ELSE a.orig_grid_y[1],
         orig_grid_z |-> a.orig_grid_z,
         d_grid_x |-> dx, d_grid_y |-> dy, d_grid_z |-> dz,
         d_xy |-> a.d_xy, d_xyz |-> a.d_xyz]

\* __post_init__ of VelGridCommand and of LocGridCommand (the two bodies
\* are the same): expand the convenience spacings, then derive the unset
\* origins.  -(n * d) / 2.0 is exact here: every spacing of the model is an
\* even number of units.
GridPostInit(a) ==
    LET dx == IF a.d_xyz # None THEN a.d_xyz[1]
              ELSE IF a.d_xy # None THEN a.d_xy[1] ELSE a.d_grid_x
        dy == IF a.d_xyz # None THEN a.d_xyz[1]
              ELSE IF a.d_xy # None THEN a.d_xy[1] ELSE a.d_grid_y
        dz == IF a.d_xyz # None THEN a.d_xyz[1] ELSE a.d_grid_z
    IN  [num_grid_x |-> a.num_grid_x, num_grid_y |-> a.num_grid_y,
         num_grid_z |-> a.num_grid_z,
         orig_grid_x |-> IF a.orig_grid_x = None
                         THEN (-(a.num_grid_x * dx)) \div 2
                         ELSE a.orig_grid_x[1],
         orig_grid_y |-> IF a.orig_grid_y = None
                         THEN (-(a.num_grid_y * dy)) \div 2
                         ELSE a.orig_grid_y[1],
         orig_grid_z |-> a.orig_grid_z,
         d_grid_x |-> dx, d_grid_y |-> dy, d_grid_z |-> dz,
         d_xy |-> a.d_xy, d_xyz |-> a.d_xyz]

VelGridCommand(a) ==
    [kind |-> "VGGRID", grid_type |-> "SLOW_LEN", float_type |-> ""]
        @@ GridPostInit(a)

LocGridCommand(a) ==
    [kind |-> "LOCGRID", grid_type |-> "PROB_DENSITY", float_type |-> "SAVE"]
        @@ GridPostInit(a)

\* The defaults of the dataclass fields.
VelGridDefaults ==
    GridArgs(200, 200, 50, None, None, 0, 10000, 10000, 10000, None, None)

LocGridDefaults ==
    GridArgs(100, 100, 50, None, None, 0, 10000, 10000, 10000, None, None)

\* VelGridCommand.__str__ and LocGridCommand.__str__.
GridStr(g) ==
    <<W(g.kind), SP(1), I(g.num_grid_x), SP(1), I(g.num_grid_y), SP(1),
      I(g.num_grid_z), SP(2),
      N(g.orig_grid_x, "r"), SP(1), N(g.orig_grid_y, "r"), SP(1),
      N(g.orig_grid_z, "r"), SP(2),
      N(g.d_grid_x, "r"), SP(1), N(g.d_grid_y, "r"), SP(1),
      N(g.d_grid_z, "r"), SP(2), W(g.grid_type)>>
    \o (IF g.kind = "LOCGRID" THEN <<SP(1), W(g.float_type)>> ELSE <<>>)

LocSearchCommand ==
    [search_type |-> "OCT", num_cells_x |-> 20, num_cells_y |-> 20,
     num_cells_z |-> 11, min_node_size |-> 100, max_num_nodes |-> 20000,
     num_scatter |-> 5000]

LocSearchStr(s) ==
    IF s.search_type = "OCT"
    THEN <<W("LOCSEARCH"), SP(1), W(s.search_type), SP(1), I(s.num_cells_x),
           SP(1), I(s.num_cells_y), SP(1), I(s.num_cells_z), SP(1),
           N(s.min_node_size, "r"), SP(1), I(s.max_num_nodes), SP(1),
           I(s.num_scatter), SP(1), I(0), SP(1), I(1)>>
    ELSE <<W("LOCSEARCH"), SP(1), W(s.search_type)>>

\* v_p_vs_ratio holds an int by default and a float in the volcano preset;
\* the field is kept as the token '{self.v_p_vs_ratio}' writes for it.
LocMethodCommand ==
    [method |-> "EDT_OT_WT", max_dist_sta_grid |-> 99990000,
     min_num_phases |-> 6, max_num_phases |-> -1, min_num_s_phases |-> -1,
     v_p_vs_ratio |-> I(-1), max_num_3d_grid_memory |-> 0,
     min_num_loc_grids |-> -1, duplicate_arrivals_mode |-> 1]

LocMethodStr(m) ==
    <<W("LOCMETH"), SP(1), W(m.method), SP(1), N(m.max_dist_sta_grid, "f1"),
      SP(1), I(m.min_num_phases), SP(1), I(m.max_num_phases), SP(1),
      I(m.min_num_s_phases), SP(1), m.v_p_vs_ratio, SP(1),
      I(m.max_num_3d_grid_memory), SP(1), I(m.min_num_loc_grids), SP(1),
      I(m.duplicate_arrivals_mode)>>

GTSrceCommand(label, lat, lon, elev, depth_corr, sta_fmt) ==
    [label |-> label, lat_sta |-> lat, lon_sta |-> lon, elev |-> elev,
     depth_corr |-> depth_corr, sta_fmt |-> sta_fmt]

\* The '{label:<{field_width}s}' of GTSrceCommand and EQSTACommand: the
\* number of blanks that pad the label.
LabelPad(label, sta_fmt) ==
    Max(0, (IF sta_fmt \in {"NET.STA", "NET_STA"} THEN 8 ELSE 5) - Len(label))

GTSrceStr(g) ==
    <<W("GTSRCE"), SP(1), W(g.label), SP(LabelPad(g.label, g.sta_fmt) + 1),
      W("LATLON"), SP(1), N(g.lat_sta, "f6"), SP(1), N(g.lon_sta, "f6"),
      SP(1), N(g.depth_corr, "f1"), SP(1), N(g.elev, "f3"), SP(1)>>

EQSTACommand(label, phase, error_type, error, error_report_type, error_report, prob_active) ==
    [label |-> label, phase |-> phase, error_type |-> error_type,
     error |-> error, error_report_type |-> error_report_type,
     error_report |-> error_report, prob_active |-> prob_active,
     sta_fmt |-> "STA"]

EQSTAStr(e) ==
    <<W("EQSTA"), SP(2), W(e.label), SP(LabelPad(e.label, e.sta_fmt) + 2),
      W(e.phase), SP(2), W(e.error_type), SP(2), N(e.error, "r"), SP(2),
      W(e.error_report_type), SP(2), N(e.error_report, "r"), SP(2),
      N(e.prob_active, "r")>>

\* LayerCommand.__post_init__: the generic stratovolcano model.
\* A LayerCommand whose __post_init__ leaves the list as the field default.
DefaultLayersEmpty == <<>>

DefaultLayers ==
    << <<0, 42669, 0, 24664, 0, 27000, 0>>,
       <<10000, 46400, 0, 26821, 0, 27000, 0>>,
       <<20000, 49574, 0, 28656, 0, 27000, 0>>,
       <<30000, 52000, 0, 30059, 0, 27000, 0>>,
       <<40000, 53846, 0, 31125, 0, 27000, 0>>,
       <<50000, 55344, 0, 31991, 0, 27000, 0>>,
       <<60000, 56382, 0, 32591, 0, 27000, 0>>,
       <<70000, 57612, 0, 33302, 0, 27000, 0>>,
       <<80000, 58638, 0, 33895, 0, 27000, 0>>,
       <<90000, 59561, 0, 34429, 0, 27000, 0>>,
       <<100000, 60681, 0, 35076, 0, 27000, 0>>,
       <<110000, 61625, 0, 35621, 0, 27000, 0>>,
       <<120000, 62579, 0, 36173, 0, 27000, 0>>,
       <<130000, 63340, 0, 36613, 0, 27000, 0>>,
       <<140000, 63930, 0, 36954, 0, 27000, 0>>,
       <<150000, 65047, 0, 37600, 0, 27000, 0>>,
       <<160000, 65277, 0, 37732, 0, 27000, 0>>,
       <<170000, 65967, 0, 38131, 0, 27000, 0>>,
       <<180000, 66520, 0, 38451, 0, 27000, 0>>,
       <<190000, 67230, 0, 38861, 0, 27000, 0>>,
       <<200000, 67715, 0, 39142, 0, 27000, 0>>,
       <<210000, 68049, 0, 38861, 0, 27000, 0>>,
       <<220000, 68533, 0, 39614, 0, 27000, 0>>,
       <<230000, 68985, 0, 39876, 0, 27000, 0>>,
       <<240000, 69619, 0, 40242, 0, 27000, 0>>,
       <<250000, 69889, 0, 40398, 0, 27000, 0>>,
       <<260000, 70233, 0, 40597, 0, 27000, 0>>,
       <<270000, 70807, 0, 40929, 0, 27000, 0>>,
       <<280000, 71085, 0, 41089, 0, 27000, 0>> >>

\* One LAYER line; '{depth:>5.2f}' right-justifies the depth in 5 columns.
LayerLine(l) ==
    <<W("LAYER"), SP(1 + Max(0, 5 - LenF2(l[1]))), N(l[1], "f2"), SP(1),
      N(l[2], "f2"), SP(1), N(l[3], "f2"), SP(1), N(l[4], "f2"), SP(1),
      N(l[5], "f2"), SP(1), N(l[6], "f2"), SP(1), N(l[7], "f2")>>

\* LayerCommand.__str__: the loop unpacks every layer into seven names, so a
\* layer that is not a 7-tuple raises ValueError.
LayerStr(layers) ==
    IF \E i \in 1..Len(layers) : Len(layers[i]) # 7
    THEN [err |-> "ValueError", lines |-> <<>>]
    ELSE [err |-> "",
          lines |-> IF Len(layers) = 0 THEN << <<>> >>
                    ELSE [i \in 1..Len(layers) |-> LayerLine(layers[i])]]

LocPhaseIDStr(phase_type, phase_labels) ==
    <<W("LOCPHASEID"), SP(1), W(phase_type), SP(3)>>
    \o JoinSp([i \in 1..Len(phase_labels) |-> W(phase_labels[i])])

LocQual2ErrCommand == <<200, 500, 1000, 2000, 5000, 999999000>>

LocQual2ErrStr(error_values) ==
    <<W("LOCQUAL2ERR"), SP(1)>>
    \o JoinSp([i \in 1..Len(error_values) |-> N(error_values[i], "f3")])

(***************************************************************************)
(* NLLocConfig (config.py).                                                *)
(***************************************************************************)
Words(ws) == JoinSp([i \in 1..Len(ws) |-> W(ws[i])])

\* NLLocConfig.__init__
NLLocConfig ==
    [control |-> ControlCommand,
     trans |-> TransCommand,
     vgtype |-> <<"P">>,
     eqvpvs |-> 17300,
     velocity_path |-> "./model/layer",
     time_path |-> "./time/layer",
     synth_path |-> "./obs_synth/synth.obs",
     input_obs |-> <<"./obs/*.obs", "NLLOC_OBS">>,
     output_obs |-> "./loc/volcano",
     lochypout |-> <<"SAVE_NLLOC_ALL", "SAVE_NLLOC_SUM", "SAVE_HYPO71_SUM">>,
     vggrid |-> VelGridCommand(VelGridDefaults),
     locgrid |-> LocGridCommand(LocGridDefaults),
     locsearch |-> LocSearchCommand,
     locmethod |-> LocMethodCommand,
     layer |-> DefaultLayers,
     gtsrce_stations |-> <<>>,
     eqsta_commands |-> <<>>,
     locsig |-> Words(<<"NLLPy", "-", "Python", "NLLoc", "Control", "Generator">>),
     loccom |-> Words(<<"Generated", "automatically">>),
     locphaseid |-> << <<"P", <<"P", "p", "Pn", "Pg", "P1">> >>,
                        <<"S", <<"S", "s", "Sn", "Sg", "S1">> >> >>,
     locqual2err |-> LocQual2ErrCommand]

\* A section that always renders.
Ok(lines) == [err |-> "", lines |-> lines]

get_eqsta_section(cfg) ==
    IF Len(cfg.eqsta_commands) = 0
    THEN Ok(<< <<C("# No EQSTA error definitions")>> >>)
    ELSE Ok(<< <<C("# Station-specific error definitions")>> >>
            \o [i \in 1..Len(cfg.eqsta_commands) |-> EQSTAStr(cfg.eqsta_commands[i])])

\* A station section that writes a line only for the first station of each
\* code.
get_gtsrce_section_unique(cfg) ==
    LET first == { i \in 1..Len(cfg.gtsrce_stations) :
                     \A j \in 1..(i - 1) :
                        cfg.gtsrce_stations[j].label # cfg.gtsrce_stations[i].label }
        kept == SelectSeq([i \in 1..Len(cfg.gtsrce_stations) |-> i],
                          LAMBDA i : i \in first)
    IN  IF Len(cfg.gtsrce_stations) = 0
        THEN Ok(<< <<C("# No stations defined")>> >>)
        ELSE Ok(<< <<C("# Station definitions")>> >>
                \o [k \in 1..Len(kept) |-> GTSrceStr(cfg.gtsrce_stations[kept[k]])])

get_gtsrce_section(cfg) ==
    IF Len(cfg.gtsrce_stations) = 0
    THEN Ok(<< <<C("# No stations defined")>> >>)
    ELSE Ok(<< <<C("# Station definitions")>> >>
            \o [i \in 1..Len(cfg.gtsrce_stations) |-> GTSrceStr(cfg.gtsrce_stations[i])])

get_layer_section(cfg) ==
    LET r == LayerStr(cfg.layer)
    IN  IF r.err # "" THEN r
        ELSE Ok(<< <<C("# Velocity model")>> >> \o r.lines)

get_vgtype_section(cfg) ==
    Ok([i \in 1..Len(cfg.vgtype) |-> <<W("VGTYPE"), SP(2), W(cfg.vgtype[i])>>])

get_vggrid_section(cfg) ==
    Ok(<< <<C("# Velocity grid")>>, GridStr(cfg.vggrid) >>)

get_locgrid_section(cfg) ==
    Ok(<< <<C("# Location grid")>>, GridStr(cfg.locgrid) >>)

get_lochypout_section(cfg) ==
    <<W("LOCHYPOUT"), SP(2)>> \o Words(cfg.lochypout)

get_basic_commands(cfg) ==
    Ok(<< <<C("# Basic control parameters")>>, ControlStr(cfg.control) >>)

get_trans_commands(cfg) ==
    LET r == TransStr(cfg.trans)
    IN  IF r.err # "" THEN [err |-> r.err, lines |-> <<>>]
        ELSE Ok(<< <<C("# Transform command")>>, r.line >>)

get_comment_commands(cfg) ==
    Ok(<< <<C("# Signature and comments")>>,
          <<W("LOCSIG"), SP(1)>> \o cfg.locsig,
          <<W("LOCCOM"), SP(1)>> \o cfg.loccom >>)

get_phase_definitions(cfg) ==
    Ok(<< <<C("# Phase definitions")>> >>
       \o [i \in 1..Len(cfg.locphaseid) |->
              LocPhaseIDStr(cfg.locphaseid[i][1], cfg.locphaseid[i][2])]
       \o << LocQual2ErrStr(cfg.locqual2err) >>)

get_io_sections(cfg) ==
    Ok(<< <<W("VGOUT"), SP(4), W(cfg.velocity_path)>>,
          <<W("GTFILES"), SP(2), W(cfg.velocity_path), SP(2), W(cfg.time_path),
            SP(2), W("P")>>,
          <<W("EQFILES"), SP(2), W(cfg.time_path), SP(2), W(cfg.synth_path)>>,
          <<W("LOCFILES"), SP(1), W(cfg.input_obs[1]), SP(2), W(cfg.input_obs[2]),
            SP(2), W(cfg.time_path), SP(1), W(cfg.output_obs)>>,
          get_lochypout_section(cfg) >>)

\* A literal one-line section; its fields are never read back as numbers.
Lit(ws) == Ok(<< Words(ws) >>)

\* The list `sections` of write_complete_control_file, in its order.  The
\* list is built before the file is opened, so the first element that
\* raises decides the call.
CompleteSections(cfg) ==
    << get_basic_commands(cfg),
       get_trans_commands(cfg),
       get_comment_commands(cfg),
       get_io_sections(cfg),
       Ok(<< <<W("GTMODE"), SP(3), W("GRID3D"), SP(2), W("ANGLES_YES")>> >>),
       Ok(<< <<W("GT_PLFD"), SP(2), W("1.0e-3"), SP(2), W("0")>> >>),
       Ok(<< <<W("EQMECH"), SP(2), W("DOUBLE"), SP(1), W("0.0"), SP(1),
               W("90.0"), SP(1), W("0.0")>> >>),
       Lit(<<"EQMODE", "SRCE_TO_STA">>),
       Ok(<< <<W("EQEVENT"), SP(2), W("EQ001"), SP(3), W("0.0"), SP(1),
               W("0.0"), SP(1), W("10.0"), SP(2), W("0.0")>> >>),
       Lit(<<"EQQUAL2ERR", "0.1", "0.2", "0.4", "0.8", "99999.9">>),
       get_vgtype_section(cfg),
       Ok(<< <<W("EQVPVS"), SP(2), N(cfg.eqvpvs, "r")>> >>),
       get_vggrid_section(cfg),
       get_locgrid_section(cfg),
       Ok(<< LocSearchStr(cfg.locsearch) >>),
       Ok(<< LocMethodStr(cfg.locmethod) >>),
       get_layer_section(cfg),
       Lit(<<"LOCGAU", "0.2", "0.0">>),
       Lit(<<"LOCGAU2", "0.01", "0.05", "2.0">>),
       Lit(<<"LOCANGLES", "ANGLES_YES", "5">>),
       Lit(<<"LOCMAG", "ML_HB", "1.0", "1.110", "0.00189">>),
       Lit(<<"LOCPHSTAT", "9999.0", "-1", "9999.0", "1.0", "1.0", "9999.9",
             "-9999.9", "9999.9">>),
       get_phase_definitions(cfg),
       get_gtsrce_section(cfg),
       get_eqsta_section(cfg),
       Ok(<< <<>> >>) >>

\* A reduced document that keeps the I/O path declarations.
ScpSectionsWithIo(cfg) ==
    << get_basic_commands(cfg),
       get_trans_commands(cfg),
       get_comment_commands(cfg),
       get_io_sections(cfg),
       Ok(<< <<W("GTMODE"), SP(3), W("GRID3D"), SP(2), W("ANGLES_YES")>> >>),
       Ok(<< <<W("GT_PLFD"), SP(2), W("1.0e-3"), SP(2), W("0")>> >>),
       Ok(<< LocSearchStr(cfg.locsearch) >>),
       get_locgrid_section(cfg),
       Ok(<< LocMethodStr(cfg.locmethod) >>),
       Lit(<<"LOCGAU", "0.001", "0.0">>),
       get_phase_definitions(cfg),
       Lit(<<"LOCQUAL2ERR", "0.1", "0.5", "1.0", "2.0", "99999.9">>),
       Lit(<<"LOCANGLES", "ANGLES_YES", "5">>) >>

\* The list `sections` of write_scp_control_file.
ScpSections(cfg) ==
    << get_basic_commands(cfg),
       get_trans_commands(cfg),
       get_comment_commands(cfg),
       Ok(<< <<W("GTMODE"), SP(3), W("GRID3D"), SP(2), W("ANGLES_YES")>> >>),
       Ok(<< <<W("GT_PLFD"), SP(2), W("1.0e-3"), SP(2), W("0")>> >>),
       Ok(<< LocSearchStr(cfg.locsearch) >>),
       get_locgrid_section(cfg),
       Ok(<< LocMethodStr(cfg.locmethod) >>),
       Lit(<<"LOCGAU", "0.001", "0.0">>),
       get_phase_definitions(cfg),
       Lit(<<"LOCQUAL2ERR", "0.1", "0.5", "1.0", "2.0", "99999.9">>),
       Lit(<<"LOCANGLES", "ANGLES_YES", "5">>) >>

\* The first exception a list of sections raises, "" when none does.
FirstErr(secs) ==
    IF \E i \in 1..Len(secs) : secs[i].err # ""
    THEN secs[CHOOSE i \in 1..Len(secs) :
                 /\ secs[i].err # ""
                 /\ \A j \in 1..(i - 1) : secs[j].err = ""].err
    ELSE ""

\* What a write call hands to f.write(), or the exception it raises first.
RenderText(secs) ==
    IF FirstErr(secs) # ""
    THEN [err |-> FirstErr(secs), text |-> <<>>]
    ELSE [err |-> "",
          text |-> JoinSections([i \in 1..Len(secs) |-> secs[i].lines])]

\* write_complete_control_file: the text written, or the exception.
write_complete_control_file(cfg) == RenderText(CompleteSections(cfg))

\* write_scp_control_file: the text written, or the exception.
write_scp_control_file(cfg) == RenderText(ScpSections(cfg))

(***************************************************************************)
(* Mutations of the aggregate.                                             *)
(***************************************************************************)
\* The result of a call that may raise after changing part of the state.
Ret(cfg) == [cfg |-> cfg, err |-> ""]

Raise(cfg, e) == [cfg |-> cfg, err |-> e]

\* The entries add_eqsta_errors and add_eqsta_simple construct: the fields
\* they do not pass keep the dataclass defaults.
EqstaDefault(station, phase, error, error_report) ==
    EQSTACommand(station, phase, "GAU", error, "GAU", error_report, 10000)

\* add_eqsta_errors for one station: phases is the inner dict, a sequence of
\* (phase, error, error_report) in insertion order with distinct phases.
RECURSIVE AddStationPhases(_, _, _)
AddStationPhases(cfg, station, phases) ==
    IF Len(phases) = 0 THEN cfg
    ELSE AddStationPhases(
            [cfg EXCEPT !.eqsta_commands =
                Append(@, EqstaDefault(station, Head(phases)[1],
                                       Head(phases)[2], Head(phases)[3]))],
            station, Tail(phases))

\* add_eqsta_errors: station_errors is the outer dict, a sequence of
\* (station, phases) in insertion order with distinct stations.
RECURSIVE add_eqsta_errors(_, _)
add_eqsta_errors(cfg, station_errors) ==
    IF Len(station_errors) = 0 THEN cfg
    ELSE add_eqsta_errors(
            AddStationPhases(cfg, Head(station_errors)[1],
                             Head(station_errors)[2]),
            Tail(station_errors))

\* add_eqsta_simple: station_errors is a dict of station to
\* (error, error_report), a sequence of (station, error, error_report).
RECURSIVE add_eqsta_simple(_, _, _)
add_eqsta_simple(cfg, station_errors, phase) ==
    IF Len(station_errors) = 0 THEN cfg
    ELSE add_eqsta_simple(
            [cfg EXCEPT !.eqsta_commands =
                Append(@, EqstaDefault(Head(station_errors)[1], phase,
                                       Head(station_errors)[2],
                                       Head(station_errors)[3]))],
            Tail(station_errors), phase)

\* An add_eqsta_single that replaces the entry of the same station and
\* phase when there is one.
add_eqsta_single_merge(cfg, label, phase, error_type, error, error_report_type, error_report, prob_active) ==
    LET e == EQSTACommand(label, phase, error_type, error,
                          error_report_type, error_report, prob_active)
        same(i) == /\ cfg.eqsta_commands[i].label = label
                   /\ cfg.eqsta_commands[i].phase = phase
    IN  IF \E i \in 1..Len(cfg.eqsta_commands) : same(i)
        THEN [cfg EXCEPT !.eqsta_commands =
                [i \in 1..Len(@) |-> IF same(i) THEN e ELSE @[i]]]
        ELSE [cfg EXCEPT !.eqsta_commands = Append(@, e)]

add_eqsta_single(cfg, label, phase, error_type, error, error_report_type, error_report, prob_active) ==
    [cfg EXCEPT !.eqsta_commands =
        Append(@, EQSTACommand(label, phase, error_type, error,
                               error_report_type, error_report, prob_active))]

\* An add_station that skips a code the configuration already holds.
add_station_dedup(cfg, code, lat, lon, elev, depth_corr) ==
    IF \E i \in 1..Len(cfg.gtsrce_stations) : cfg.gtsrce_stations[i].label = code
    THEN cfg
    ELSE [cfg EXCEPT
            !.gtsrce_stations =
                Append(@, GTSrceCommand(code, lat, lon, elev, depth_corr, "STA")),
            !.eqsta_commands =
                Append(@, EQSTACommand(code, "P", "GAU", 0, "GAU", 0, 10000))]

add_station(cfg, code, lat, lon, elev, depth_corr) ==
    [cfg EXCEPT
        !.gtsrce_stations =
            Append(@, GTSrceCommand(code, lat, lon, elev, depth_corr, "STA")),
        !.eqsta_commands =
            Append(@, EQSTACommand(code, "P", "GAU", 0, "GAU", 0, 10000))]

\* A station record of an inventory: code, latitude, longitude, depth.
StationData(code, lat, lon, depth) ==
    [code |-> code, latitude |-> lat, longitude |-> lon, depth |-> depth]

add_station_to_gtsrce(cfg, station_data, sta_fmt) ==
    [cfg EXCEPT !.gtsrce_stations =
        Append(@, GTSrceCommand(station_data.code, station_data.latitude,
                                station_data.longitude,
                                station_data.depth * (-1), 0, sta_fmt))]

RECURSIVE AddAllToGtsrce(_, _, _)
AddAllToGtsrce(cfg, stations, sta_fmt) ==
    IF Len(stations) = 0 THEN cfg
    ELSE AddAllToGtsrce(add_station_to_gtsrce(cfg, Head(stations), sta_fmt),
                        Tail(stations), sta_fmt)

\* The files an inventory path can name: None when the path does not exist,
\* else the station records its lines parse to.
InventoryFiles(path) ==
    IF path = "stations.txt"
    THEN Some(<< StationData("ST01", 465300, 84900, -12000) >>)
    ELSE None

\* A parse_inventory that reads a missing file as an empty inventory.
parse_inventory_lenient(path) ==
    IF InventoryFiles(path) = None
    THEN [err |-> "", stations |-> <<>>]
    ELSE [err |-> "", stations |-> InventoryFiles(path)[1]]

\* parse_inventory: FileNotFoundError for a path that does not exist.
parse_inventory(path) ==
    IF InventoryFiles(path) = None
    THEN [err |-> "FileNotFoundError", stations |-> <<>>]
    ELSE [err |-> "", stations |-> InventoryFiles(path)[1]]

add_station_from_inventory(cfg, path, sta_fmt) ==
    LET r == parse_inventory(path)
    IN  IF r.err # "" THEN Raise(cfg, r.err)
        ELSE Ret(AddAllToGtsrce(cfg, r.stations, sta_fmt))

BasicLayers == << <<0, 20000>>, <<20000, 40000>>, <<80000, 55000>>,
                  <<200000, 68000>> >>

setup_basic_velocity_model(cfg) == [cfg EXCEPT !.layer = BasicLayers]

set_velocity_model_by_name(cfg, model_name) ==
    IF model_name = "vdap_stratovolcano"
    THEN [cfg EXCEPT !.layer =
            << <<0, 20000>>, <<5000, 30000>>, <<10000, 38000>>,
               <<20000, 48000>>, <<40000, 58000>>, <<80000, 62000>>,
               <<150000, 68000>>, <<300000, 80000>> >>]
    ELSE IF model_name = "basic_crust"
    THEN [cfg EXCEPT !.layer = BasicLayers]
    ELSE setup_basic_velocity_model(cfg)

(***************************************************************************)
(* Grid setup.                                                             *)
(***************************************************************************)
\* int(math.ceil(a / b)) for floats a, b.
CeilDiv(a, b) == IF b > 0 THEN -((-a) \div b) ELSE -(a \div (-b))

\* The coordinate-system origin both setup methods store: the attributes
\* they assign are orig_lat and orig_lon, which TransCommand.__str__ does
\* not read.
SetCenter(cfg, center_lat, center_lon) ==
    [cfg EXCEPT
        !.trans.orig_lat = IF center_lat # None THEN center_lat ELSE @,
        !.trans.orig_lon = IF center_lon # None THEN center_lon ELSE @]

\* setup_basic_grid: the counts and spacings of the existing location grid
\* are assigned in place; no grid is constructed, so __post_init__ does not
\* run and the origins stay as they were.
setup_basic_grid(cfg, grid_size, grid_spacing, depth_range, depth_spacing, center_lat, center_lon) ==
    IF grid_spacing = 0 \/ depth_spacing = 0
    THEN Raise(cfg, "ZeroDivisionError")
    ELSE LET num_grid_points == TruncDiv(grid_size, grid_spacing) + 1
             num_depth_points == TruncDiv(depth_range, depth_spacing) + 1
         IN  Ret(SetCenter(
                [cfg EXCEPT !.locgrid.num_grid_x = num_grid_points,
                            !.locgrid.num_grid_y = num_grid_points,
                            !.locgrid.num_grid_z = num_depth_points,
                            !.locgrid.d_grid_x = grid_spacing,
                            !.locgrid.d_grid_y = grid_spacing,
                            !.locgrid.d_grid_z = depth_spacing],
                center_lat, center_lon))

\* setup_grid_from_km: the spacings are expanded, the counts rounded up and
\* a new LocGridCommand is constructed from them.
setup_grid_from_km(cfg, kmx, kmy, kmz, dx0, dy0, dz0, d_xy, d_xyz, center_lat, center_lon) ==
    LET dx == IF d_xyz # None THEN d_xyz[1]
              ELSE IF d_xy # None THEN d_xy[1] ELSE dx0
        dy == IF d_xyz # None THEN d_xyz[1]
              ELSE IF d_xy # None THEN d_xy[1] ELSE dy0
        dz == IF d_xyz # None THEN d_xyz[1] ELSE dz0
    IN  IF dx = 0 \/ dy = 0 \/ dz = 0 THEN Raise(cfg, "ZeroDivisionError")
        ELSE Ret(SetCenter(
                [cfg EXCEPT !.locgrid = LocGridCommand(
                    GridArgs(CeilDiv(kmx, dx), CeilDiv(kmy, dy),
                             CeilDiv(kmz, dz), None, None, 0, dx, dy, dz,
                             None, None))],
                center_lat, center_lon))

(***************************************************************************)
(* modify_from_args.                                                       *)
(***************************************************************************)
\* kwargs with no key given; the last seven fields carry the kwargs.get()
\* defaults of the inventory branch.
NoArgs ==
    [lat |-> None, lon |-> None, gridkm |-> None, depthkm |-> None,
     sig |-> None, com |-> None, prefix |-> None, trans |-> None,
     model |-> None, inventory |-> None,
     sta_fmt |-> "STA", p_error |-> 0, s_error |-> 0, phases |-> <<"P", "S">>,
     error_type |-> "GAU", prob_active |-> 10000, rad_km |-> 500000]

\* The 'lat' and 'lon' keys.
ArgsOrigin(cfg, kw) ==
    Ret([cfg EXCEPT
            !.trans.lat_orig = IF kw.lat # None THEN kw.lat ELSE @,
            !.trans.lon_orig = IF kw.lon # None THEN kw.lon ELSE @])

\* A 'gridkm' branch that assigns the counts and spacings to the existing
\* grids instead of constructing new ones.
ArgsGridkmInPlace(cfg, kw) ==
    IF kw.gridkm = None THEN Ret(cfg)
    ELSE LET parts == kw.gridkm[1] IN
    IF Len(parts) < 3 THEN Ret(cfg)
    ELSE IF \E i \in 1..3 : ~FloatOk(parts[i]) THEN Raise(cfg, "ValueError")
    ELSE LET grid_width == FloatOf(parts[1])
             grid_height == FloatOf(parts[2])
             grid_spacing == FloatOf(parts[3])
         IN
    IF grid_spacing = 0 THEN Raise(cfg, "ZeroDivisionError")
    ELSE LET nx == TruncDiv(grid_width, grid_spacing) + 1
             ny == TruncDiv(grid_height, grid_spacing) + 1
         IN  Ret([cfg EXCEPT
                !.locgrid.num_grid_x = nx, !.locgrid.num_grid_y = ny,
                !.locgrid.d_grid_x = grid_spacing,
                !.locgrid.d_grid_y = grid_spacing,
                !.vggrid.num_grid_x = nx, !.vggrid.num_grid_y = ny,
                !.vggrid.d_grid_x = grid_spacing,
                !.vggrid.d_grid_y = grid_spacing])

\* The 'gridkm' key: parts is the string split at ','.
ArgsGridkm(cfg, kw) ==
    IF kw.gridkm = None THEN Ret(cfg)
    ELSE LET parts == kw.gridkm[1] IN
    IF Len(parts) < 3 THEN Ret(cfg)
    ELSE IF \E i \in 1..3 : ~FloatOk(parts[i]) THEN Raise(cfg, "ValueError")
    ELSE LET grid_width == FloatOf(parts[1])
             grid_height == FloatOf(parts[2])
             grid_spacing == FloatOf(parts[3])
         IN
    IF grid_spacing = 0 THEN Raise(cfg, "ZeroDivisionError")
    ELSE LET nx == TruncDiv(grid_width, grid_spacing) + 1
             ny == TruncDiv(grid_height, grid_spacing) + 1
         IN  Ret([cfg EXCEPT
                !.locgrid = LocGridCommand(
                    GridArgs(nx, ny, cfg.locgrid.num_grid_z, None, None,
                             cfg.locgrid.orig_grid_z, grid_spacing,
                             grid_spacing, cfg.locgrid.d_grid_z, None, None)),
                !.vggrid = VelGridCommand(
                    GridArgs(nx, ny, cfg.vggrid.num_grid_z, None, None,
                             cfg.vggrid.orig_grid_z, grid_spacing,
                             grid_spacing, cfg.vggrid.d_grid_z, None, None))])

\* The 'depthkm' key.
ArgsDepthkm(cfg, kw) ==
    IF kw.depthkm = None THEN Ret(cfg)
    ELSE LET parts == kw.depthkm[1] IN
    IF Len(parts) < 2 THEN Ret(cfg)
    ELSE IF \E i \in 1..2 : ~FloatOk(parts[i]) THEN Raise(cfg, "ValueError")
    ELSE LET depth_range == FloatOf(parts[1])
             depth_spacing == FloatOf(parts[2])
         IN
    IF depth_spacing = 0 THEN Raise(cfg, "ZeroDivisionError")
    ELSE LET nz == TruncDiv(depth_range, depth_spacing) + 1
         IN  Ret([cfg EXCEPT
                !.locgrid = LocGridCommand(
                    GridArgs(cfg.locgrid.num_grid_x, cfg.locgrid.num_grid_y, nz,
                             None, None, -50000, cfg.locgrid.d_grid_x,
                             cfg.locgrid.d_grid_y, depth_spacing, None, None)),
                !.vggrid = VelGridCommand(
                    GridArgs(cfg.vggrid.num_grid_x, cfg.vggrid.num_grid_y, nz,
                             None, None, -50000, cfg.vggrid.d_grid_x,
                             cfg.vggrid.d_grid_y, depth_spacing, None, None))])

\* The 'sig', 'com', 'prefix', 'trans' and 'model' keys.
ArgsText(cfg, kw) ==
    LET c1 == [cfg EXCEPT
                  !.locsig = IF kw.sig # None THEN kw.sig[1] ELSE @,
                  !.loccom = IF kw.com # None THEN kw.com[1] ELSE @,
                  !.output_obs = IF kw.prefix # None
                                 THEN "./loc/" \o kw.prefix[1] ELSE @,
                  !.trans.transformation =
                      IF kw.trans # None THEN kw.trans[1] ELSE @]
    IN  Ret(IF kw.model # None
            THEN set_velocity_model_by_name(c1, kw.model[1]) ELSE c1)

\* The phase entries the inventory branch adds for one station label.
AddPhases(cfg, label, kw) ==
    LET hasP == \E i \in 1..Len(kw.phases) : kw.phases[i] = "P"
        hasS == \E i \in 1..Len(kw.phases) : kw.phases[i] = "S"
        c1 == IF hasP
              THEN add_eqsta_single(cfg, label, "P", kw.error_type, kw.p_error,
                                    kw.error_type, kw.p_error, kw.prob_active)
              ELSE cfg
    IN  IF hasS
        THEN add_eqsta_single(c1, label, "S", kw.error_type, kw.s_error,
                              kw.error_type, kw.s_error, kw.prob_active)
        ELSE c1

RECURSIVE AddPhasesAll(_, _, _)
AddPhasesAll(cfg, labels, kw) ==
    IF Len(labels) = 0 THEN cfg
    ELSE AddPhasesAll(AddPhases(cfg, Head(labels), kw), Tail(labels), kw)

IsHttp(path) == path \in {"http://service.iris.edu"}

\* create_from_fdsn_stations.  fdsn is what the provider does: the import of
\* the client library fails, the download fails, or it returns stations.  A
\* transform origin of None makes the query arguments fail to evaluate,
\* which the method reports as RuntimeError like any failed download.
create_from_fdsn_stations(cfg, fdsn, sta_fmt) ==
    IF fdsn.err = "ImportError" THEN Raise(cfg, "ImportError")
    ELSE IF fdsn.err # "" \/ cfg.trans.lat_orig = None
            \/ cfg.trans.lon_orig = None
    THEN Raise(cfg, "RuntimeError")
    ELSE Ret(AddAllToGtsrce(cfg, fdsn.stations, sta_fmt))

\* The 'inventory' key: the provider branch adds entries for the stations
\* it downloaded, the file branch for every station of the configuration.
ArgsInventory(cfg, kw, fdsn) ==
    IF kw.inventory = None THEN Ret(cfg)
    ELSE IF IsHttp(kw.inventory[1])
    THEN LET r == create_from_fdsn_stations(cfg, fdsn, kw.sta_fmt)
         IN  IF r.err # "" THEN r
             ELSE Ret(AddPhasesAll(r.cfg,
                        [i \in 1..Len(fdsn.stations) |-> fdsn.stations[i].code],
                        kw))
    ELSE LET r == add_station_from_inventory(cfg, kw.inventory[1], kw.sta_fmt)
         IN  IF r.err # "" THEN r
             ELSE Ret(AddPhasesAll(r.cfg,
                        [i \in 1..Len(r.cfg.gtsrce_stations) |->
                            r.cfg.gtsrce_stations[i].label],
                        kw))

modify_from_args(cfg, kw, fdsn) ==
    LET r1 == ArgsOrigin(cfg, kw)
        r2 == IF r1.err # "" THEN r1 ELSE ArgsGridkm(r1.cfg, kw)
        r3 == IF r2.err # "" THEN r2 ELSE ArgsDepthkm(r2.cfg, kw)
        r4 == IF r3.err # "" THEN r3 ELSE ArgsText(r3.cfg, kw)
    IN  IF r4.err # "" THEN r4 ELSE ArgsInventory(r4.cfg, kw, fdsn)

(***************************************************************************)
(* Loading a control file.                                                 *)
(***************************************************************************)
\* The text of a token, for the fields the loader keeps as strings.
TokText(tok) == IF tok.t = "num" THEN ToString(tok.v) ELSE tok.s

\* Thresholds that let a bare LOCSIG or LOCCOM keyword through.
MinPartsLoose(command) ==
    CASE command = "TRANS"   -> 4
      [] command = "LOCGRID" -> 10
      [] command = "LAYER"   -> 3
      [] command = "LOCSIG"  -> 1
      [] command = "LOCCOM"  -> 1
      [] command = "GTSRCE"  -> 5
      [] command = "EQSTA"   -> 5
      [] OTHER               -> 0

\* The minimum number of tokens the handler of a keyword requires.
MinParts(command) ==
    CASE command = "TRANS"   -> 4
      [] command = "LOCGRID" -> 10
      [] command = "LAYER"   -> 3
      [] command = "LOCSIG"  -> 2
      [] command = "LOCCOM"  -> 2
      [] command = "GTSRCE"  -> 5
      [] command = "EQSTA"   -> 5
      [] OTHER               -> 0

Recognized == {"TRANS", "LOCGRID", "LAYER", "LOCSIG", "LOCCOM", "GTSRCE", "EQSTA"}

\* The assignments of a handler, in the order of the source: the field
\* named names[i] is set from parts[i + 1], read by float() (kind "f") or
\* int() (kind "i").  A token the conversion rejects raises ValueError and
\* leaves the earlier assignments of the same line in place.  wrap tells
\* whether the record keeps the field as an Optional.
RECURSIVE AssignFields(_, _, _, _, _, _)
AssignFields(rec, names, kinds, parts, wrap, i) ==
    IF i > Len(names) THEN [rec |-> rec, err |-> ""]
    ELSE LET tok == parts[i + 1]
             ok == IF kinds[i] = "f" THEN FloatOk(tok) ELSE IntOk(tok)
             val == IF kinds[i] = "f" THEN FloatOf(tok) ELSE IntOf(tok)
         IN  IF ~ok THEN [rec |-> rec, err |-> "ValueError"]
             ELSE AssignFields(
                    [rec EXCEPT ![names[i]] = IF wrap THEN Some(val) ELSE val],
                    names, kinds, parts, wrap, i + 1)

ParseTrans(cfg, parts) ==
    LET r == AssignFields(cfg.trans, <<"orig_lat", "orig_lon", "orig_elev">>,
                          <<"f", "f", "f">>, parts, TRUE, 1)
    IN  [cfg |-> [cfg EXCEPT !.trans = r.rec], err |-> r.err]

ParseLocGrid(cfg, parts) ==
    LET r == AssignFields(cfg.locgrid,
                <<"orig_grid_x", "orig_grid_y", "orig_grid_z", "num_grid_x",
                  "num_grid_y", "num_grid_z", "d_grid_x", "d_grid_y",
                  "d_grid_z">>,
                <<"f", "f", "f", "i", "i", "i", "f", "f", "f">>,
                parts, FALSE, 1)
    IN  [cfg |-> [cfg EXCEPT !.locgrid = r.rec], err |-> r.err]

ParseLayer(cfg, parts) ==
    IF ~FloatOk(parts[2]) \/ ~FloatOk(parts[3]) THEN Raise(cfg, "ValueError")
    ELSE Ret([cfg EXCEPT !.layer =
                Append(@, <<FloatOf(parts[2]), FloatOf(parts[3])>>)])

ParseGtsrce(cfg, parts) ==
    IF \E i \in 3..5 : ~FloatOk(parts[i]) THEN Raise(cfg, "ValueError")
    ELSE IF Len(parts) > 5 /\ ~FloatOk(parts[6]) THEN Raise(cfg, "ValueError")
    ELSE Ret(add_station(cfg, TokText(parts[2]), FloatOf(parts[3]),
                         FloatOf(parts[4]), FloatOf(parts[5]),
                         IF Len(parts) > 5 THEN FloatOf(parts[6]) ELSE 0))

ParseEqsta(cfg, parts) ==
    IF ~FloatOk(parts[4]) \/ ~FloatOk(parts[5]) THEN Raise(cfg, "ValueError")
    ELSE Ret(add_eqsta_single(cfg, TokText(parts[2]), TokText(parts[3]), "GAU",
                              FloatOf(parts[4]), "GAU", FloatOf(parts[5]),
                              10000))

\* One iteration of the loop of _parse_control_file_content.
ParseLine(cfg, line) ==
    LET parts == Split(line)
    IN  IF Len(parts) = 0 \/ parts[1].t = "hash" THEN Ret(cfg)
        ELSE LET command == Upper(TokText(parts[1]))
             IN  IF command \notin Recognized \/ Len(parts) < MinParts(command)
                 THEN Ret(cfg)
                 ELSE CASE command = "TRANS"   -> ParseTrans(cfg, parts)
                        [] command = "LOCGRID" -> ParseLocGrid(cfg, parts)
                        [] command = "LAYER"   -> ParseLayer(cfg, parts)
                        [] command = "LOCSIG"  ->
                             Ret([cfg EXCEPT !.locsig = JoinSp(Tail(parts))])
                        [] command = "LOCCOM"  ->
                             Ret([cfg EXCEPT !.loccom = JoinSp(Tail(parts))])
                        [] command = "GTSRCE"  -> ParseGtsrce(cfg, parts)
                        [] command = "EQSTA"   -> ParseEqsta(cfg, parts)

\* _parse_control_file_content: no handler catches, so the first exception
\* ends the loop and leaves the lines after it unread.
RECURSIVE parse_control_file_content(_, _)
parse_control_file_content(cfg, lines) ==
    IF Len(lines) = 0 THEN Ret(cfg)
    ELSE LET r == ParseLine(cfg, Head(lines))
         IN  IF r.err # "" THEN r
             ELSE parse_control_file_content(r.cfg, Tail(lines))

\* A load that empties the three collections before it reads the document.
load_from_file_fresh(cfg, content) ==
    IF content = None THEN [cfg |-> cfg, ret |-> FALSE]
    ELSE LET r == parse_control_file_content(
                    [cfg EXCEPT !.gtsrce_stations = <<>>,
                                !.eqsta_commands = <<>>, !.layer = <<>>],
                    content[1])
         IN  [cfg |-> r.cfg, ret |-> r.err = ""]

\* load_from_file: content is None when the file cannot be opened.  Every
\* exception is caught and reported as the return value False.
load_from_file(cfg, content) ==
    IF content = None THEN [cfg |-> cfg, ret |-> FALSE]
    ELSE LET r == parse_control_file_content(cfg, content[1])
         IN  [cfg |-> r.cfg, ret |-> r.err = ""]

(***************************************************************************)
(* Preset builders (templates/volcano.py, templates/regional.py).          *)
(***************************************************************************)
\* hasattr(config, key) for the keys the model passes: an attribute of the
\* instance.
HasAttr(cfg, key) == key \in DOMAIN cfg

\* The loop over kwargs.items(): setattr for an attribute the instance has,
\* a printed warning and nothing else for any other key.
RECURSIVE ApplyOverrides(_, _)
ApplyOverrides(cfg, kwargs) ==
    IF Len(kwargs) = 0 THEN cfg
    ELSE LET key == Head(kwargs)[1]
             value == Head(kwargs)[2]
         IN  ApplyOverrides(IF HasAttr(cfg, key)
                            THEN [cfg EXCEPT ![key] = value] ELSE cfg,
                            Tail(kwargs))

VolcanoLayers ==
    <<
       <<-60000, 25487, 0, 14732, 0, 27000, 0>>,
       <<-50000, 28855, 0, 16679, 0, 27000, 0>>,
       <<-40000, 32036, 0, 18518, 0, 27000, 0>>,
       <<-30000, 35037, 0, 20253, 0, 27000, 0>>,
       <<-20000, 37864, 0, 21887, 0, 27000, 0>>,
       <<-10000, 40523, 0, 23424, 0, 27000, 0>>,
       <<0, 43020, 0, 24867, 0, 27000, 0>>,
       <<10000, 45361, 0, 26220, 0, 27000, 0>>,
       <<20000, 47552, 0, 27487, 0, 27000, 0>>,
       <<30000, 49599, 0, 28670, 0, 27000, 0>>,
       <<40000, 51508, 0, 29773, 0, 27000, 0>>,
       <<50000, 53286, 0, 30801, 0, 27000, 0>>,
       <<60000, 54937, 0, 31756, 0, 27000, 0>>,
       <<70000, 56470, 0, 32641, 0, 27000, 0>>,
       <<80000, 57888, 0, 33462, 0, 27000, 0>>,
       <<90000, 59200, 0, 34219, 0, 27000, 0>>,
       <<100000, 60409, 0, 34919, 0, 27000, 0>>,
       <<110000, 61524, 0, 35563, 0, 27000, 0>>,
       <<120000, 62549, 0, 36155, 0, 27000, 0>>,
       <<130000, 63491, 0, 36700, 0, 27000, 0>>,
       <<140000, 64355, 0, 37199, 0, 27000, 0>>,
       <<150000, 65149, 0, 37658, 0, 27000, 0>>,
       <<160000, 65877, 0, 38079, 0, 27000, 0>>,
       <<170000, 66546, 0, 38466, 0, 27000, 0>>,
       <<180000, 67163, 0, 38822, 0, 27000, 0>>,
       <<190000, 67732, 0, 39151, 0, 27000, 0>>,
       <<200000, 68261, 0, 39457, 0, 27000, 0>>,
       <<210000, 68755, 0, 39743, 0, 27000, 0>>,
       <<220000, 69220, 0, 40011, 0, 27000, 0>>,
       <<230000, 69662, 0, 40267, 0, 27000, 0>>,
       <<240000, 70088, 0, 40513, 0, 27000, 0>>,
       <<250000, 70503, 0, 40753, 0, 27000, 0>>,
       <<260000, 70914, 0, 40991, 0, 27000, 0>>,
       <<270000, 71327, 0, 41229, 0, 27000, 0>>,
       <<280000, 71747, 0, 41472, 0, 27000, 0>>,
       <<290000, 72181, 0, 41723, 0, 27000, 0>>,
       <<300000, 72634, 0, 41985, 0, 27000, 0>> >>

\* create_volcano_config.  config.filename is a new attribute of the
\* instance; the grids are assigned field by field, origins included.
create_volcano_config(lat_orig, lon_orig, kwargs) ==
    LET c0 == [filename |-> "volcano.in"] @@ NLLocConfig
        c1 == [c0 EXCEPT
                !.trans.transformation = "SDC",
                !.trans.lat_orig = Some(lat_orig),
                !.trans.lon_orig = Some(lon_orig),
                !.trans.rotation = 0,
                !.locsearch = [search_type |-> "OCT", num_cells_x |-> 20,
                               num_cells_y |-> 20, num_cells_z |-> 11,
                               min_node_size |-> 100, max_num_nodes |-> 20000,
                               num_scatter |-> 5000],
                !.locmethod.method = "EDT_OT_WT",
                !.locmethod.max_dist_sta_grid = 500000,
                !.locmethod.min_num_phases = 6,
                !.locmethod.min_num_s_phases = 3,
                !.locmethod.v_p_vs_ratio = N(17300, "r"),
                !.vggrid.num_grid_x = 200, !.vggrid.num_grid_y = 200,
                !.vggrid.num_grid_z = 50,
                !.vggrid.orig_grid_x = -1000000, !.vggrid.orig_grid_y = -1000000,
                !.vggrid.orig_grid_z = -50000,
                !.vggrid.d_grid_x = 10000, !.vggrid.d_grid_y = 10000,
                !.vggrid.d_grid_z = 10000,
                !.locgrid.num_grid_x = 100, !.locgrid.num_grid_y = 100,
                !.locgrid.num_grid_z = 30,
                !.locgrid.orig_grid_x = -500000, !.locgrid.orig_grid_y = -500000,
                !.locgrid.orig_grid_z = -50000,
                !.locgrid.d_grid_x = 10000, !.locgrid.d_grid_y = 10000,
                !.locgrid.d_grid_z = 10000,
                !.layer = VolcanoLayers,
                !.locphaseid = << <<"P", <<"P", "p", "Pn", "Pg">> >>,
                                  <<"S", <<"S", "s", "Sn", "Sg">> >> >>,
                !.locqual2err = <<100, 200, 500, 1000, 2000, 5000>>,
                !.locsig = Words(<<"USGS", "Volcano", "Disaster", "Assistance",
                                   "Program">>),
                !.loccom = Words(<<"NonLinLoc", "template", "for", "volcano",
                                   "monitoring">>)]
    IN  Ret(ApplyOverrides(c1, kwargs))

\* create_regional_config.  The layers are assigned through config.gtlevels,
\* an attribute NLLocConfig does not have: the read raises AttributeError and
\* the statements after it do not run.
create_regional_config(lat_orig, lon_orig, kwargs) ==
    LET c1 == [NLLocConfig EXCEPT
                !.trans.transformation = "LAMBERT",
                !.trans.lat_orig = Some(lat_orig),
                !.trans.lon_orig = Some(lon_orig),
                !.locsearch.search_type = "OCT",
                !.locsearch.min_node_size = 1000,
                !.locsearch.max_num_nodes = 20000,
                !.locgrid.num_grid_x = 201, !.locgrid.num_grid_y = 201,
                !.locgrid.num_grid_z = 61,
                !.locgrid.orig_grid_x = -1000000, !.locgrid.orig_grid_y = -1000000,
                !.locgrid.orig_grid_z = 0,
                !.locgrid.d_grid_x = 10000, !.locgrid.d_grid_y = 10000,
                !.locgrid.d_grid_z = 10000]
    IN  IF ~HasAttr(c1, "gtlevels") THEN Raise(c1, "AttributeError")
        ELSE Ret(ApplyOverrides(
                [c1 EXCEPT
                    !.gtlevels.layers = << <<0, 60000>>, <<150000, 65000>>,
                                           <<250000, 78000>>, <<350000, 81000>> >>,
                    !.locmethod.max_dist_sta_grid = 3000000,
                    !.locmethod.min_num_phases = 8,
                    !.locmethod.min_num_s_phases = 4,
                    !.locsig = Words(<<"Regional", "Seismic", "Network">>),
                    !.loccom = Words(<<"Regional", "earthquake", "location">>)],
                kwargs))

(***************************************************************************)
(* Inputs of the operations.                                               *)
(***************************************************************************)
\* (code, lat, lon, elev, depth_corr) of add_station.
StationInputs ==
    { <<"VT01", 465100, 84700, 15000000, 0>>,
      <<"VT02", 465200, 84800, 12000000, 0>> }

\* (label, phase, error, error_report) of add_eqsta_single.
EqstaInputs == { <<"VT01", "S", 1000, 2000>>, <<"VT01", "P", 0, 0>> }

Text(ws) == Words(ws)

InvArgs(path, phases) ==
    [NoArgs EXCEPT !.inventory = Some(path), !.p_error = 1500,
                   !.s_error = 2500, !.phases = phases]

\* The keyword sets modify_from_args is called with.
ArgSets ==
    { [NoArgs EXCEPT !.lat = Some(465100), !.lon = Some(84700)],
      [NoArgs EXCEPT !.lat = Some(465100)],
      [NoArgs EXCEPT !.gridkm = Some(<<N(100000, "r"), N(100000, "r"), N(5000, "r")>>),
                     !.depthkm = Some(<<N(200000, "r"), N(5000, "r")>>)],
      [NoArgs EXCEPT !.sig = Some(Text(<<"My", "network">>)),
                     !.com = Some(Text(<<"run", "1">>)),
                     !.prefix = Some("run1"), !.trans = Some("SDC")],
      [NoArgs EXCEPT !.model = Some("basic_crust")],
      InvArgs("test_inventory.txt", <<"P", "S">>),
      InvArgs("test_inventory.txt", <<"P">>),
      InvArgs("test_inventory.txt", <<"S">>),
      InvArgs("stations.txt", <<"P", "S">>),
      InvArgs("http://service.iris.edu", <<"P", "S">>) }

\* What the station provider can do for one query.
FdsnOutcomes ==
    { [err |-> "ImportError", stations |-> <<>>],
      [err |-> "RuntimeError", stations |-> <<>>],
      [err |-> "", stations |-> << StationData("NW01", 465500, 84600, -9000) >>] }

Line(toks) == JoinSp(toks)

\* Recognized lines with one token too few for their handler.
ShortLines ==
    << Line(<<W("TRANS"), N(465100, "r"), N(84700, "r")>>),
       Line(<<W("LOCGRID"), N(-50000, "r"), N(-50000, "r"), N(0, "r"), I(11),
              I(11), I(6), N(10000, "r"), N(10000, "r")>>),
       Line(<<W("LAYER"), N(0, "r")>>),
       Line(<<W("LOCSIG")>>),
       Line(<<W("LOCCOM")>>),
       Line(<<W("GTSRCE"), W("VT09"), N(465000, "r"), N(84000, "r")>>),
       Line(<<W("EQSTA"), W("VT09"), W("P"), N(1000, "r")>>) >>

\* Lines in the layout the handlers read.
ValidLines ==
    << Line(<<W("TRANS"), N(465100, "r"), N(84700, "r"), N(0, "r")>>),
       <<C("# a comment")>>,
       <<>>,
       Line(<<W("CONTROL"), I(1), I(54321)>>),
       Line(<<W("LOCGRID"), N(-50000, "r"), N(-50000, "r"), N(0, "r"), I(11),
              I(11), I(6), N(10000, "r"), N(10000, "r"), N(10000, "r")>>),
       Line(<<W("layer"), N(0, "r"), N(20000, "r")>>),
       Line(<<W("LOCSIG"), W("Loaded"), W("sig")>>),
       Line(<<W("LOCCOM"), W("Loaded"), W("com")>>),
       Line(<<W("GTSRCE"), W("VT03"), N(465300, "r"), N(84900, "r"),
              N(9000000, "r"), N(0, "r")>>),
       Line(<<W("EQSTA"), W("VT03"), W("S"), N(1000, "r"), N(1000, "r")>>) >>

\* A recognized line with a word where float() needs a number, between two
\* lines the loader accepts.
BadLines ==
    << Line(<<W("LOCSIG"), W("Before")>>),
       Line(<<W("LAYER"), W("abc"), N(20000, "r")>>),
       Line(<<W("LOCCOM"), W("After")>>) >>

\* Lines the loader has no handler for: an empty line, comments (one of
\* them indented, one that starts with a keyword after the '#'), and
\* statements of other kinds, one of them with a keyword as its second
\* token.
IgnoredLines ==
    << <<>>,
       <<C("# Transform command")>>,
       <<SP(4), C("#TRANS 1.0 2.0 3.0")>>,
       <<SP(2)>>,
       Line(<<W("CONTROL"), I(1), I(54321)>>),
       Line(<<W("LOCSEARCH"), W("OCT"), I(20), I(20), I(11)>>),
       Line(<<W("VGOUT"), W("LOCSIG"), W("x")>>),
       Line(<<W("TRANSFORM"), N(465100, "r"), N(84700, "r"), N(0, "r")>>) >>

\* The lines of ValidLines with their keywords in lower or mixed case.
MixedCaseLines ==
    << Line(<<W("Trans"), N(465100, "r"), N(84700, "r"), N(0, "r")>>),
       Line(<<W("locgrid"), N(-50000, "r"), N(-50000, "r"), N(0, "r"), I(11),
              I(11), I(6), N(10000, "r"), N(10000, "r"), N(10000, "r")>>),
       Line(<<W("Layer"), N(0, "r"), N(20000, "r")>>),
       Line(<<W("locsig"), W("Loaded"), W("sig")>>),
       <<SP(2), W("loccom"), SP(1), W("Loaded"), SP(3), W("com")>>,
       Line(<<W("gtsrce"), W("VT03"), N(465300, "r"), N(84900, "r"),
              N(9000000, "r"), N(0, "r")>>),
       Line(<<W("eqsta"), W("VT03"), W("S"), N(1000, "r"), N(1000, "r")>>) >>

\* The documents load_from_file is given, besides the file last written.
Documents ==
    { ShortLines,
      ShortLines \o ValidLines,
      ValidLines,
      BadLines,
      IgnoredLines,
      IgnoredLines \o MixedCaseLines,
      << GridStr(LocGridCommand(LocGridDefaults)),
         Line(<<W("LOCCOM"), W("After")>>) >> }

\* (nx, ny, nz, ox, oy, oz, dx, dy, dz, d_xy, d_xyz) of a grid constructor.
GridInputs ==
    { GridArgs(nx, ny, 50, ox, oy, oz, dx, 10000, dz, dxy, dxyz) :
        nx \in {1, 100}, ny \in {7, 100}, ox \in {None, Some(0), Some(-25000)},
        oy \in {None, Some(12500)}, oz \in {0, -50000}, dx \in {2500, 10000},
        dz \in {10000, 5000}, dxy \in {None, Some(5000)},
        dxyz \in {None, Some(20000)} }

(***************************************************************************)
(* The state machine.  config is one NLLocConfig instance, file the        *)
(* control file on disk (None until one is written), input and result the  *)
(* arguments and the outcome of the last call, ops the calls made on the   *)
(* instance since its construction.  gargs and grid are the arguments and  *)
(* the result of one grid construction.                                    *)
(***************************************************************************)
Outcome(op, err, ret) == [op |-> op, err |-> err, ret |-> ret]

Init ==
    /\ config = NLLocConfig
    /\ file = None
    /\ input = <<>>
    /\ result = Outcome("init", "", TRUE)
    /\ ops = <<>>
    /\ gargs = LocGridDefaults
    /\ grid = None

Call(op) == /\ Len(ops) < MaxSteps
            /\ ops' = Append(ops, op)
            /\ UNCHANGED <<gargs, grid>>

AddStation ==
    \E a \in StationInputs :
        /\ Call("add_station")
        /\ config' = add_station(config, a[1], a[2], a[3], a[4], a[5])
        /\ input' = a
        /\ result' = Outcome("add_station", "", TRUE)
        /\ UNCHANGED file

AddEqstaSingle ==
    \E a \in EqstaInputs :
        /\ Call("add_eqsta_single")
        /\ config' = add_eqsta_single(config, a[1], a[2], "GAU", a[3], "GAU",
                                      a[4], 10000)
        /\ input' = a
        /\ result' = Outcome("add_eqsta_single", "", TRUE)
        /\ UNCHANGED file

SetupBasicVelocityModel ==
    /\ Call("setup_basic_velocity_model")
    /\ config' = setup_basic_velocity_model(config)
    /\ input' = <<>>
    /\ result' = Outcome("setup_basic_velocity_model", "", TRUE)
    /\ UNCHANGED file

\* The provider is consulted only for an inventory that is a URL.
ModifyInputs ==
    { <<kw, fdsn>> \in ArgSets \X FdsnOutcomes :
        \/ kw.inventory # None /\ IsHttp(kw.inventory[1])
        \/ fdsn.err = "ImportError" }

ModifyFromArgs ==
    \E a \in ModifyInputs :
        LET r == modify_from_args(config, a[1], a[2])
        IN  /\ Call("modify_from_args")
            /\ config' = r.cfg
            /\ input' = a[1]
            /\ result' = Outcome("modify_from_args", r.err, TRUE)
            /\ UNCHANGED file

\* add_station_from_inventory on a path that does not exist and on one that
\* does.
AddStationFromInventory ==
    \E path \in {"test_inventory.txt", "stations.txt"} :
        LET r == add_station_from_inventory(config, path, "STA")
        IN  /\ Call("add_station_from_inventory")
            /\ config' = r.cfg
            /\ input' = [inventory |-> Some(path), sta_fmt |-> "STA"]
            /\ result' = Outcome("add_station_from_inventory", r.err, TRUE)
            /\ UNCHANGED file

\* A write that empties eqsta_commands while it renders them.
WriteCompleteDraining ==
    LET r == write_complete_control_file(config)
    IN  /\ Call("write_complete_control_file")
        /\ file' = IF r.err = "" THEN Some(r.text) ELSE file
        /\ input' = <<>>
        /\ result' = Outcome("write_complete_control_file", r.err, TRUE)
        /\ config' = [config EXCEPT !.eqsta_commands = <<>>]

\* The file is opened only after every section has been built.
WriteComplete ==
    LET r == write_complete_control_file(config)
    IN  /\ Call("write_complete_control_file")
        /\ file' = IF r.err = "" THEN Some(r.text) ELSE file
        /\ input' = <<>>
        /\ result' = Outcome("write_complete_control_file", r.err, TRUE)
        /\ UNCHANGED config

WriteScp ==
    LET r == write_scp_control_file(config)
    IN  /\ Call("write_scp_control_file")
        /\ file' = IF r.err = "" THEN Some(r.text) ELSE file
        /\ input' = <<>>
        /\ result' = Outcome("write_scp_control_file", r.err, TRUE)
        /\ UNCHANGED config

\* The file loaded is one of the documents, the file written earlier, or a
\* path that does not exist.
LoadFromFile ==
    \E content \in {Some(d) : d \in Documents} \cup {file} :
        LET r == load_from_file(config, content)
        IN  /\ Call("load_from_file")
            /\ config' = r.cfg
            /\ input' = content
            /\ result' = Outcome("load_from_file", "", r.ret)
            /\ UNCHANGED file

Next ==
    \/ AddStation
    \/ AddEqstaSingle
    \/ SetupBasicVelocityModel
    \/ ModifyFromArgs
    \/ AddStationFromInventory
    \/ WriteComplete
    \/ WriteScp
    \/ LoadFromFile

Spec == Init /\ [][Next]_vars

\* Grid construction on its own: the arguments are drawn first, then one of
\* the two constructors runs on them.
InitGrid ==
    /\ config = NLLocConfig
    /\ file = None
    /\ input = <<>>
    /\ result = Outcome("init", "", TRUE)
    /\ ops = <<>>
    /\ gargs \in GridInputs
    /\ grid = None

NewLocGrid ==
    /\ grid = None
    /\ grid' = Some(LocGridCommand(gargs))
    /\ UNCHANGED <<config, file, input, result, ops, gargs>>

NewVelGrid ==
    /\ grid = None
    /\ grid' = Some(VelGridCommand(gargs))
    /\ UNCHANGED <<config, file, input, result, ops, gargs>>

NextGrid == NewLocGrid \/ NewVelGrid

SpecGrid == InitGrid /\ [][NextGrid]_vars

\* Grid setup on its own.  The configuration the call is made on is a new
\* one, or one whose origin, grids or fields an earlier override or load
\* has set; the arguments of the call are drawn with it.
StartConfigs ==
    { NLLocConfig,
      modify_from_args(NLLocConfig, [NoArgs EXCEPT !.lat = Some(465100), !.lon = Some(84700)], [err |-> "ImportError", stations |-> <<>>]).cfg,
      modify_from_args(NLLocConfig, [NoArgs EXCEPT !.gridkm = Some(<<N(100000, "r"), N(100000, "r"), N(5000, "r")>>), !.depthkm = Some(<<N(200000, "r"), N(5000, "r")>>)], [err |-> "ImportError", stations |-> <<>>]).cfg,
      load_from_file(NLLocConfig, Some(ValidLines)).cfg }

\* Extents and spacings in km whose quotients binary floating point
\* represents exactly, exact multiples (50/0.5, 20/0.25) and others
\* (3/4, 50/4, 10/4) among them.
SetupInputs ==
    { [kmx |-> kmx, kmy |-> 100000, kmz |-> 200000, dx |-> dx, dy |-> 10000,
       dz |-> dz, d_xy |-> dxy, d_xyz |-> dxyz,
       center_lat |-> c[1], center_lon |-> c[2]] :
        kmx \in {500000, 30000}, dx \in {5000, 40000}, dz \in {2500, 40000},
        dxy \in {None, Some(2500)}, dxyz \in {None, Some(10000)},
        c \in { <<None, None>>, <<Some(460000), Some(80000)>>,
                <<Some(460000), None>> } }

InitSetup ==
    /\ config \in StartConfigs
    /\ file = None
    /\ input = <<>>
    /\ result = Outcome("init", "", TRUE)
    /\ ops = <<>>
    /\ gargs \in SetupInputs
    /\ grid = None

SetupBasicGrid ==
    LET r == setup_basic_grid(config, gargs.kmx, gargs.dx, gargs.kmz, gargs.dz, gargs.center_lat, gargs.center_lon)
    IN  /\ Call("setup_basic_grid")
        /\ config' = r.cfg
        /\ input' = gargs
        /\ result' = Outcome("setup_basic_grid", r.err, TRUE)
        /\ UNCHANGED file

SetupGridFromKm ==
    LET r == setup_grid_from_km(config, gargs.kmx, gargs.kmy, gargs.kmz, gargs.dx, gargs.dy, gargs.dz, gargs.d_xy, gargs.d_xyz, gargs.center_lat, gargs.center_lon)
    IN  /\ Call("setup_grid_from_km")
        /\ config' = r.cfg
        /\ input' = gargs
        /\ result' = Outcome("setup_grid_from_km", r.err, TRUE)
        /\ UNCHANGED file

NextSetup == SetupBasicGrid \/ SetupGridFromKm \/ WriteComplete

SpecSetup == InitSetup /\ [][NextSetup]_vars

\* The preset builders on their own: the origin pair and the override map
\* are drawn first; a builder makes the configuration the later calls act
\* on.  A builder that raises returns nothing and config stays as it was.
OverrideMaps ==
    { <<>>,
      << <<"locsig", Words(<<"My", "network">>)>> >>,
      << <<"unknown_field", 1>> >>,
      << <<"loccom", Words(<<"run", "1">>)>>, <<"unknown_field", 1>>,
         <<"output_obs", "./loc/run1">> >>,
      << <<"min_num_phases", 4>>, <<"eqvpvs", 17800>> >>,
      << <<"filename", "custom.in">> >> }

TemplateInputs ==
    { [lat_orig |-> lat, lon_orig |-> lon, kwargs |-> kw] :
        lat \in {465100, -123400}, lon \in {84700, 1520000},
        kw \in OverrideMaps }

InitTemplate ==
    /\ config = NLLocConfig
    /\ file = None
    /\ input = <<>>
    /\ result = Outcome("init", "", TRUE)
    /\ ops = <<>>
    /\ gargs \in TemplateInputs
    /\ grid = None

CreateVolcanoConfig ==
    LET r == create_volcano_config(gargs.lat_orig, gargs.lon_orig, gargs.kwargs)
    IN  /\ Call("create_volcano_config")
        /\ config' = IF r.err = "" THEN r.cfg ELSE config
        /\ input' = gargs
        /\ result' = Outcome("create_volcano_config", r.err, TRUE)
        /\ UNCHANGED file

CreateRegionalConfig ==
    LET r == create_regional_config(gargs.lat_orig, gargs.lon_orig, gargs.kwargs)
    IN  /\ Call("create_regional_config")
        /\ config' = IF r.err = "" THEN r.cfg ELSE config
        /\ input' = gargs
        /\ result' = Outcome("create_regional_config", r.err, TRUE)
        /\ UNCHANGED file

NextTemplate == CreateVolcanoConfig \/ CreateRegionalConfig \/ WriteComplete

SpecTemplate == InitTemplate /\ [][NextTemplate]_vars

\* An assignment that derives the x and y origins again from the new
\* counts and spacings.
SetAttrRederive(g, name, value) ==
    LET h == [g EXCEPT ![name] = value]
    IN  [h EXCEPT !.orig_grid_x = (-(h.num_grid_x * h.d_grid_x)) \div 2,
                  !.orig_grid_y = (-(h.num_grid_y * h.d_grid_y)) \div 2]

\* Assignment to a field of a grid command after its construction, as
\* setup_basic_grid and the preset builders do: a dataclass instance takes
\* the value and runs nothing else.

SetAttr(g, name, value) == [g EXCEPT ![name] = value]

\* The grids field assignment is applied to, and the (field, value) pairs
\* assigned: counts and spacings, as in config.py:107-114.
MutateInputs ==
    { a \in GridInputs :
        a.num_grid_y = 100 /\ a.orig_grid_z = 0 /\ a.d_grid_z = 10000 }

Assignments ==
    { <<"num_grid_x", 41>>, <<"num_grid_y", 41>>, <<"num_grid_z", 21>>,
      <<"d_grid_x", 5000>>, <<"d_grid_y", 2500>>, <<"d_grid_z", 2500>> }

InitMutate ==
    /\ config = NLLocConfig
    /\ file = None
    /\ input = <<>>
    /\ result = Outcome("init", "", TRUE)
    /\ ops = <<>>
    /\ gargs \in MutateInputs
    /\ grid = None

MutateGrid ==
    \E a \in Assignments :
        /\ grid # None
        /\ Len(ops) < MaxSteps
        /\ ops' = Append(ops, "setattr")
        /\ grid' = Some(SetAttr(grid[1], a[1], a[2]))
        /\ input' = a
        /\ UNCHANGED <<config, file, result, gargs>>

NextMutate == NewLocGrid \/ NewVelGrid \/ MutateGrid

SpecMutate == InitMutate /\ [][NextMutate]_vars

\* The convenience spacings on their own: one set of spacing arguments is
\* given to a grid constructor and, with extents in km, to
\* setup_grid_from_km.  The per-axis spacings differ from each other and
\* from both uniform spacings.
SpacingInputs ==
    { GridArgs(nx, 100, 50, ox, None, 0, dx, 10000, dz, dxy, dxyz)
        @@ [kmx |-> kmx, kmy |-> 100000, kmz |-> 200000, dx |-> dx,
            dy |-> 10000, dz |-> dz, center_lat |-> None, center_lon |-> None] :
        nx \in {1, 100}, ox \in {None, Some(-25000)}, dx \in {2500, 40000},
        dz \in {5000, 40000}, dxy \in {None, Some(5000)},
        dxyz \in {None, Some(20000)}, kmx \in {500000, 30000} }

InitSpacing ==
    /\ config = NLLocConfig
    /\ file = None
    /\ input = <<>>
    /\ result = Outcome("init", "", TRUE)
    /\ ops = <<>>
    /\ gargs \in SpacingInputs
    /\ grid = None

NextSpacing == NewLocGrid \/ NewVelGrid \/ SetupGridFromKm

SpecSpacing == InitSpacing /\ [][NextSpacing]_vars

\* The operations that add station-phase errors, on their own.  The
\* mappings of the batch variants are Python dicts, so their keys are
\* distinct; one of them is empty, and their stations and phases repeat
\* those of the single calls.
ErrorMaps ==
    { <<>>,
      << <<"VT01", << <<"P", 1000, 1000>>, <<"S", 2000, 2000>> >> >>,
         <<"VT02", << <<"P", 0, 0>> >> >> >>,
      << <<"VT01", << <<"S", 1000, 2000>> >> >> >> }

SimpleMaps ==
    { << <<"VT01", 0, 0>>, <<"VT02", 1000, 1000>> >>,
      << <<"VT02", 500, 500>> >> }

AddEqstaErrors ==
    \E m \in ErrorMaps :
        /\ Call("add_eqsta_errors")
        /\ config' = add_eqsta_errors(config, m)
        /\ input' = m
        /\ result' = Outcome("add_eqsta_errors", "", TRUE)
        /\ UNCHANGED file

AddEqstaSimple ==
    \E m \in SimpleMaps, phase \in {"P", "S"} :
        /\ Call("add_eqsta_simple")
        /\ config' = add_eqsta_simple(config, m, phase)
        /\ input' = <<m, phase>>
        /\ result' = Outcome("add_eqsta_simple", "", TRUE)
        /\ UNCHANGED file

NextEqsta == AddStation \/ AddEqstaSingle \/ AddEqstaErrors \/ AddEqstaSimple

SpecEqsta == Init /\ [][NextEqsta]_vars

\* The grid keys of modify_from_args on their own, on a configuration that
\* is new or whose grids an earlier override or load has set.  The strings
\* are given as their comma-separated parts: extents that are and are not
\* multiples of the spacing, and strings one part short.
GridOverrides ==
    { [NoArgs EXCEPT !.gridkm = Some(<<N(100000, "r"), N(100000, "r"), N(5000, "r")>>)],
      [NoArgs EXCEPT !.gridkm = Some(<<N(30000, "r"), N(500000, "r"), N(20000, "r")>>)],
      [NoArgs EXCEPT !.depthkm = Some(<<N(30000, "r"), N(20000, "r")>>)],
      [NoArgs EXCEPT !.gridkm = Some(<<N(100000, "r"), N(100000, "r"), N(5000, "r")>>),
                     !.depthkm = Some(<<N(200000, "r"), N(5000, "r")>>)],
      [NoArgs EXCEPT !.gridkm = Some(<<N(100000, "r"), N(5000, "r")>>),
                     !.depthkm = Some(<<N(200000, "r")>>)],
      [NoArgs EXCEPT !.gridkm = Some(<<N(100000, "r"), N(5000, "r")>>),
                     !.depthkm = Some(<<N(200000, "r"), N(5000, "r")>>)] }

InitOverride ==
    /\ config \in StartConfigs
    /\ file = None
    /\ input = <<>>
    /\ result = Outcome("init", "", TRUE)
    /\ ops = <<>>
    /\ gargs = LocGridDefaults
    /\ grid = None

ModifyGrids ==
    \E kw \in GridOverrides :
        LET r == modify_from_args(config, kw, [err |-> "ImportError", stations |-> <<>>])
        IN  /\ Call("modify_from_args")
            /\ config' = r.cfg
            /\ input' = kw
            /\ result' = Outcome("modify_from_args", r.err, TRUE)
            /\ UNCHANGED file

NextOverride == ModifyGrids

SpecOverride == InitOverride /\ [][NextOverride]_vars

\* Writing on its own: the configuration is a new one or one whose layers,
\* stations or fields an earlier call has set, none of them with the
\* transform origin set; the origin is set with 'lat' and 'lon', or with
\* 'lat' alone, between the writes.
WriteStartConfigs ==
    { NLLocConfig,
      setup_basic_velocity_model(NLLocConfig),
      add_station(NLLocConfig, "VT01", 465100, 84700, 15000000, 0),
      load_from_file(NLLocConfig, Some(ValidLines)).cfg }

OriginArgs ==
    { [NoArgs EXCEPT !.lat = Some(465100), !.lon = Some(84700)],
      [NoArgs EXCEPT !.lat = Some(465100)] }

InitWrite ==
    /\ config \in WriteStartConfigs
    /\ file = None
    /\ input = <<>>
    /\ result = Outcome("init", "", TRUE)
    /\ ops = <<>>
    /\ gargs = LocGridDefaults
    /\ grid = None

SetOrigin ==
    \E kw \in OriginArgs :
        LET r == modify_from_args(config, kw, [err |-> "ImportError", stations |-> <<>>])
        IN  /\ Call("modify_from_args")
            /\ config' = r.cfg
            /\ input' = kw
            /\ result' = Outcome("modify_from_args", r.err, TRUE)
            /\ UNCHANGED file

NextWrite == SetOrigin \/ WriteComplete \/ WriteScp

SpecWrite == InitWrite /\ [][NextWrite]_vars

(***************************************************************************)
(* Properties.                                                             *)
(***************************************************************************)
OriginSet(cfg) == cfg.trans.lat_orig # None /\ cfg.trans.lon_orig # None

IsWrite(op) == op \in {"write_complete_control_file", "write_scp_control_file"}

Last(seq) == seq[Len(seq)]

RoundTripFields(cfg) ==
    [transformation |-> cfg.trans.transformation,
     lat_orig |-> cfg.trans.lat_orig, lon_orig |-> cfg.trans.lon_orig,
     rotation |-> cfg.trans.rotation,
     counts |-> <<cfg.locgrid.num_grid_x, cfg.locgrid.num_grid_y,
                  cfg.locgrid.num_grid_z>>,
     origins |-> <<cfg.locgrid.orig_grid_x, cfg.locgrid.orig_grid_y,
                   cfg.locgrid.orig_grid_z>>,
     spacings |-> <<cfg.locgrid.d_grid_x, cfg.locgrid.d_grid_y,
                    cfg.locgrid.d_grid_z>>,
     layers |-> cfg.layer, locsig |-> cfg.locsig, loccom |-> cfg.loccom,
     stations |-> [i \in 1..Len(cfg.gtsrce_stations) |->
                     LET g == cfg.gtsrce_stations[i]
                     IN  <<g.label, g.lat_sta, g.lon_sta, g.elev, g.depth_corr>>],
     errors |-> [i \in 1..Len(cfg.eqsta_commands) |->
                   LET e == cfg.eqsta_commands[i]
                   IN  <<e.label, e.phase, e.error, e.error_report>>]]

\* C3: round trip.  The complete document of a configuration whose
\* transform origin is set, loaded into a new configuration, is loaded with
\* success and gives back the transform, location grid, layers, signature,
\* comment, stations and station-phase errors of the configuration.
C3_RoundTrip ==
    (result.op = "write_complete_control_file" /\ result.err = ""
        /\ OriginSet(config)) =>
        LET r == load_from_file(NLLocConfig, file)
        IN  /\ r.ret = TRUE
            /\ RoundTripFields(r.cfg) = RoundTripFields(config)

\* C4: rendering a transform whose origin latitude or longitude is unset
\* raises instead of returning text, and both write variants pass that
\* failure on to their caller; with both set the transform renders as a
\* TRANS line.
C4_TransPrecondition ==
    /\ ~OriginSet(config) =>
          /\ TransStr(config.trans).err = "ValueError"
          /\ get_trans_commands(config).err = "ValueError"
          /\ IsWrite(result.op) => result.err = "ValueError"
    /\ OriginSet(config) =>
          /\ TransStr(config.trans).err = ""
          /\ Split(TransStr(config.trans).line)[1] = W("TRANS")
          /\ Len(Split(TransStr(config.trans).line)) = 5
          /\ get_trans_commands(config).err = ""

\* A write was refused for a transform whose latitude is set and whose
\* longitude is not.
C4_Witness ==
    /\ IsWrite(result.op)
    /\ result.err = "ValueError"
    /\ config.trans.lat_orig # None
    /\ config.trans.lon_orig = None

\* C5: a write changes no field and no collection of the configuration;
\* what it writes (or raises) is the rendering of the configuration as it is
\* at the call; two writes of the same variant with no mutation in between
\* end the same way with the same text.
C5_RenderIsPure ==
    [][(ops' # ops /\ IsWrite(result'.op)) =>
        LET r == IF result'.op = "write_complete_control_file"
                 THEN write_complete_control_file(config')
                 ELSE write_scp_control_file(config')
        IN  /\ config' = config
            /\ result'.err = r.err
            /\ r.err = "" => file' = Some(r.text)
            /\ r.err # "" => file' = file
            /\ result.op = result'.op =>
                  /\ result'.err = result.err
                  /\ result.err = "" => file' = file]_vars

\* Two complete writes in a row of a configuration whose origin is set,
\* both done, the second after the first with nothing in between.
C5_Witness ==
    /\ Len(ops) >= 3
    /\ ops[Len(ops)] = "write_complete_control_file"
    /\ ops[Len(ops) - 1] = "write_complete_control_file"
    /\ result.err = ""
    /\ file # None
    /\ OriginSet(config)

\* The keyword of every line of a text that is neither empty nor a comment.
RECURSIVE Keywords(_)
Keywords(text) ==
    IF Len(text) = 0 THEN <<>>
    ELSE LET parts == Split(Head(text))
         IN  (IF Len(parts) = 0 \/ parts[1].t = "hash" THEN <<>>
              ELSE <<TokText(parts[1])>>) \o Keywords(Tail(text))

Repeat(w, n) == [i \in 1..n |-> w]

\* The statements of the complete document in the order of the sections:
\* control; transform; signature/comment; I/O paths; solver-mode flags;
\* mechanism/event-mode lines; velocity type and ratio; velocity grid;
\* location grid; search; method; layers; fixed lines; phase aliases and
\* quality table; stations; station-phase errors.
SectionOrder(cfg) ==
    <<"CONTROL", "TRANS", "LOCSIG", "LOCCOM",
      "VGOUT", "GTFILES", "EQFILES", "LOCFILES", "LOCHYPOUT",
      "GTMODE", "GT_PLFD",
      "EQMECH", "EQMODE", "EQEVENT", "EQQUAL2ERR">>
    \o Repeat("VGTYPE", Len(cfg.vgtype)) \o <<"EQVPVS">>
    \o <<"VGGRID", "LOCGRID", "LOCSEARCH", "LOCMETH">>
    \o Repeat("LAYER", Len(cfg.layer))
    \o <<"LOCGAU", "LOCGAU2", "LOCANGLES", "LOCMAG", "LOCPHSTAT">>
    \o Repeat("LOCPHASEID", Len(cfg.locphaseid)) \o <<"LOCQUAL2ERR">>
    \o Repeat("GTSRCE", Len(cfg.gtsrce_stations))
    \o Repeat("EQSTA", Len(cfg.eqsta_commands))

\* No two empty lines in a row before the end of the text.
SingleBlankLines(text) ==
    \A i \in 1..(Len(text) - 2) : ~(text[i] = <<>> /\ text[i + 1] = <<>>)

\* C6: the complete document of a configuration whose transform origin is
\* set is written, holds the sections in the fixed order, one blank line
\* between a section and the next, and so holds the CONTROL, TRANS and
\* LOCGRID statements and one GTSRCE line per station.
C6_SectionOrder ==
    (result.op = "write_complete_control_file" /\ OriginSet(config)) =>
        /\ result.err = ""
        /\ file # None
        /\ Keywords(file[1]) = SectionOrder(config)
        /\ SingleBlankLines(file[1])

\* The calls before the last one are add_station calls on distinct codes.
StationsAddedBeforehand ==
    /\ Len(ops) >= 2
    /\ \A i \in 1..(Len(ops) - 1) : ops[i] = "add_station"
    /\ \A i, j \in 1..Len(config.gtsrce_stations) :
          config.gtsrce_stations[i].label = config.gtsrce_stations[j].label
              => i = j

\* C7: overrides with a station source, P and S error magnitudes and a
\* phase selector leave, for each station, exactly one StationPhaseError
\* per phase of the selector, carrying that phase's magnitude: 'PS' over two
\* stations gives four entries, 'P' or 'S' over one station gives one.
\* Stated for stations added beforehand with add_station and a station
\* source that names a file that does not exist.
C7_OneEntryPerStationPhase ==
    (/\ result.op = "modify_from_args"
     /\ input.inventory = Some("test_inventory.txt")
     /\ StationsAddedBeforehand) =>
        LET sta == config.gtsrce_stations
            eq == config.eqsta_commands
            mag(ph) == IF ph = "P" THEN input.p_error ELSE input.s_error
        IN  /\ Len(eq) = Len(sta) * Len(input.phases)
            /\ \A i \in 1..Len(sta) : \A k \in 1..Len(input.phases) :
                  Cardinality({ j \in 1..Len(eq) :
                      /\ eq[j].label = sta[i].label
                      /\ eq[j].phase = input.phases[k]
                      /\ eq[j].error = mag(input.phases[k]) }) = 1

\* C8: after add_station calls alone on a new configuration,
\* eqsta_commands is empty.
C8_NoErrorsAfterAddStation ==
    (Len(ops) > 0 /\ \A i \in 1..Len(ops) : ops[i] = "add_station") =>
        Len(config.eqsta_commands) = 0

\* A recognized line with enough tokens that its handler cannot convert.
Unparsable(line) == ParseLine(NLLocConfig, line).err # ""

\* C9: a load recovers from an unparsable recognized line: the line is
\* skipped, the lines after it are processed, the load reports success,
\* and the configuration is the one the document without that line gives.
C9_BadLineSkipped ==
    [][(/\ ops' # ops
        /\ result'.op = "load_from_file"
        /\ input' # None
        /\ \E i \in 1..Len(input'[1]) : Unparsable(input'[1][i])) =>
        LET good == SelectSeq(input'[1], LAMBDA l : ~Unparsable(l))
        IN  /\ result'.ret = TRUE
            /\ config' = load_from_file(config, Some(good)).cfg]_vars

\* The token counts below which the claim calls a recognized line short.
ShortOf(command) ==
    CASE command = "TRANS"   -> 4
      [] command = "LOCGRID" -> 10
      [] command = "LAYER"   -> 3
      [] command = "LOCSIG"  -> 2
      [] command = "LOCCOM"  -> 2
      [] command = "GTSRCE"  -> 5
      [] command = "EQSTA"   -> 5
      [] OTHER               -> 0

TooShort(line) ==
    LET parts == Split(line)
    IN  /\ Len(parts) > 0
        /\ parts[1].t # "hash"
        /\ Len(parts) < ShortOf(Upper(TokText(parts[1])))

\* C10: a line with a recognized keyword and too few tokens changes
\* nothing, does not fail the load and does not stop it: a load gives the
\* configuration and the return value of the same document without the
\* short lines, and a document of short lines alone leaves the
\* configuration as it was and returns True.
C10_ShortLinesIgnored ==
    [][(ops' # ops /\ result'.op = "load_from_file" /\ input' # None) =>
        LET doc == input'[1]
            r == load_from_file(config,
                                Some(SelectSeq(doc, LAMBDA l : ~TooShort(l))))
        IN  /\ config' = r.cfg
            /\ result'.ret = r.ret
            /\ (\A i \in 1..Len(doc) : TooShort(doc[i])) =>
                  config' = config /\ result'.ret = TRUE]_vars

\* A document that starts with one short line of every keyword was loaded
\* with success and the station of a later line is in the configuration.
C10_Witness ==
    /\ result.op = "load_from_file"
    /\ input = Some(ShortLines \o ValidLines)
    /\ result.ret = TRUE
    /\ \E i \in 1..Len(config.gtsrce_stations) :
          config.gtsrce_stations[i].label = "VT03"


\* The spellings of a keyword that differ from it by letter case only.
CaseVariants(k) ==
    CASE k = "TRANS"   -> {"TRANS", "trans", "Trans"}
      [] k = "LOCGRID" -> {"LOCGRID", "locgrid"}
      [] k = "LAYER"   -> {"LAYER", "layer", "Layer"}
      [] k = "LOCSIG"  -> {"LOCSIG", "locsig"}
      [] k = "LOCCOM"  -> {"LOCCOM", "loccom"}
      [] k = "GTSRCE"  -> {"GTSRCE", "gtsrce"}
      [] k = "EQSTA"   -> {"EQSTA", "eqsta"}

LoadKeywords ==
    {"TRANS", "LOCGRID", "LAYER", "LOCSIG", "LOCCOM", "GTSRCE", "EQSTA"}

\* A blank line, a comment, or a line whose first token is no load keyword
\* in any letter case.
Ignorable(line) ==
    LET parts == Split(line)
    IN  \/ Len(parts) = 0
        \/ parts[1].t = "hash"
        \/ \A k \in LoadKeywords : TokText(parts[1]) \notin CaseVariants(k)

\* The line with its keyword in upper case.
UpperCased(line) ==
    LET parts == Split(line)
        k == CHOOSE k \in LoadKeywords : TokText(parts[1]) \in CaseVariants(k)
    IN  JoinSp(<<W(k)>> \o Tail(parts))

\* C11: blank lines, comment lines and lines of an unrecognized keyword
\* change nothing and raise nothing, and the letter case of a recognized
\* keyword does not matter: a load gives the configuration and the return
\* value of the same document with those lines removed and every keyword
\* in upper case; a document of such lines alone leaves the configuration
\* as it was and returns True.
C11_IgnoredLinesAndCase ==
    [][(ops' # ops /\ result'.op = "load_from_file" /\ input' # None) =>
        LET doc == input'[1]
            kept == SelectSeq(doc, LAMBDA l : ~Ignorable(l))
            canon == [i \in 1..Len(kept) |-> UpperCased(kept[i])]
            r == load_from_file(config, Some(canon))
        IN  /\ config' = r.cfg
            /\ result'.ret = r.ret
            /\ (\A i \in 1..Len(doc) : Ignorable(doc[i])) =>
                  config' = config /\ result'.ret = TRUE]_vars

\* A document of ignored lines followed by statements with lower- and
\* mixed-case keywords was loaded: the statements took effect.
C11_Witness ==
    /\ result.op = "load_from_file"
    /\ input = Some(IgnoredLines \o MixedCaseLines)
    /\ result.ret = TRUE
    /\ config.locsig = JoinSp(<<W("Loaded"), W("sig")>>)
    /\ config.loccom = JoinSp(<<W("Loaded"), W("com")>>)
    /\ config.trans.orig_lat = Some(465100)
    /\ \E i \in 1..Len(config.gtsrce_stations) :
          config.gtsrce_stations[i].label = "VT03"


\* The singleton records of a configuration hold the defaults of their
\* dataclasses and the station and station-phase-error lists are empty.
SingletonsDefault(cfg) ==
    /\ cfg.control = [message_flag |-> 1, random_seed |-> 54321]
    /\ cfg.trans.transformation = "SIMPLE"
    /\ cfg.trans.lat_orig = None /\ cfg.trans.lon_orig = None
    /\ cfg.trans.rotation = 0
    /\ \A g \in {cfg.vggrid, cfg.locgrid} :
          /\ g.d_grid_x = 10000 /\ g.d_grid_y = 10000 /\ g.d_grid_z = 10000
          /\ g.orig_grid_z = 0
          /\ 2 * g.orig_grid_x = -(g.num_grid_x * g.d_grid_x)
          /\ 2 * g.orig_grid_y = -(g.num_grid_y * g.d_grid_y)
    /\ <<cfg.vggrid.num_grid_x, cfg.vggrid.num_grid_y, cfg.vggrid.num_grid_z>>
          = <<200, 200, 50>>
    /\ <<cfg.locgrid.num_grid_x, cfg.locgrid.num_grid_y, cfg.locgrid.num_grid_z>>
          = <<100, 100, 50>>
    /\ cfg.locsearch.search_type = "OCT"
    /\ cfg.locsearch.max_num_nodes = 20000
    /\ cfg.locmethod.method = "EDT_OT_WT"
    /\ cfg.locmethod.min_num_phases = 6
    /\ cfg.locqual2err = <<200, 500, 1000, 2000, 5000, 999999000>>
    /\ Len(cfg.locphaseid) = 2
    /\ cfg.vgtype = <<"P">>
    /\ cfg.eqvpvs = 17300

\* C12 as claimed: a new configuration has default singleton records and
\* empty station, station-phase-error and velocity-layer collections.
C12_NewConfigEmpty ==
    Len(ops) = 0 =>
        /\ SingletonsDefault(config)
        /\ config.gtsrce_stations = <<>>
        /\ config.eqsta_commands = <<>>
        /\ config.layer = <<>>

\* C12, amended: a new configuration has default singleton records and
\* empty station and station-phase-error collections; its velocity-layer
\* collection is not empty: it holds the 29 seven-field layers of the
\* default model, depths 0.0 to 28.0 in steps of 1.0.
C12_NewConfigDefaults ==
    Len(ops) = 0 =>
        /\ SingletonsDefault(config)
        /\ config.gtsrce_stations = <<>>
        /\ config.eqsta_commands = <<>>
        /\ Len(config.layer) = 29
        /\ \A i \in 1..29 :
              /\ Len(config.layer[i]) = 7
              /\ config.layer[i][1] = (i - 1) * 10000
        /\ config.layer[1] = <<0, 42669, 0, 24664, 0, 27000, 0>>
        /\ config.layer[29] = <<280000, 71085, 0, 41089, 0, 27000, 0>>

\* The configuration right after construction, before any call, renders
\* 29 LAYER lines.
C12_Witness ==
    /\ Len(ops) = 0
    /\ result.op = "init"
    /\ get_layer_section(config).err = ""
    /\ Len(get_layer_section(config).lines) >= 29

IsSetup(op) == op \in {"setup_basic_grid", "setup_grid_from_km"}

\* ceil(a / b) for positive a and b.
Ceil(a, b) == (a + b - 1) \div b

\* The extents the last setup call was given for the x, y and z axes:
\* setup_basic_grid takes one horizontal extent and a depth range.
Extents ==
    IF result.op = "setup_basic_grid"
    THEN <<gargs.kmx, gargs.kmx, gargs.kmz>>
    ELSE <<gargs.kmx, gargs.kmy, gargs.kmz>>

\* C13: after setup_basic_grid and after setup_grid_from_km every point
\* count of the location grid is ceil(extent / spacing) of its axis, for
\* the spacing the grid has after the call, exact multiples included.
C13_CountsAreCeil ==
    (IsSetup(result.op) /\ result.err = "") =>
        LET g == config.locgrid IN
        /\ g.num_grid_x = Ceil(Extents[1], g.d_grid_x)
        /\ g.num_grid_y = Ceil(Extents[2], g.d_grid_y)
        /\ g.num_grid_z = Ceil(Extents[3], g.d_grid_z)

\* C14: after setup_basic_grid and after setup_grid_from_km the origin of
\* the location grid is the derived one for the new counts and spacings,
\* origin == -(count * spacing) / 2 on the x and y axes, whatever the grid
\* was before the call.
C14_OriginRederived ==
    (IsSetup(result.op) /\ result.err = "") =>
        LET g == config.locgrid IN
        /\ 2 * g.orig_grid_x = -(g.num_grid_x * g.d_grid_x)
        /\ 2 * g.orig_grid_y = -(g.num_grid_y * g.d_grid_y)

\* The text holds a TRANS line with this latitude and longitude.
ShowsOrigin(text, lat, lon) ==
    \E i \in 1..Len(text) :
        LET parts == Split(text[i])
        IN  /\ Len(parts) >= 4
            /\ parts[1] = W("TRANS")
            /\ parts[3].t = "num" /\ parts[3].v = lat
            /\ parts[4].t = "num" /\ parts[4].v = lon

\* C15: a setup call given center_lat and center_lon makes them the origin
\* latitude and longitude of the transform, and a write that follows
\* succeeds and shows them on the TRANS line; an omitted one leaves that
\* origin coordinate as it was.
C15_CenterSetsOrigin ==
    [][/\ (ops' # ops /\ IsSetup(result'.op)) =>
            /\ gargs.center_lat # None =>
                  config'.trans.lat_orig = gargs.center_lat
            /\ gargs.center_lon # None =>
                  config'.trans.lon_orig = gargs.center_lon
            /\ gargs.center_lat = None =>
                  config'.trans.lat_orig = config.trans.lat_orig
            /\ gargs.center_lon = None =>
                  config'.trans.lon_orig = config.trans.lon_orig
       /\ (/\ ops' # ops
           /\ IsSetup(result.op)
           /\ result'.op = "write_complete_control_file"
           /\ gargs.center_lat # None /\ gargs.center_lon # None) =>
            /\ result'.err = ""
            /\ file' # None
            /\ ShowsOrigin(file'[1], gargs.center_lat[1], gargs.center_lon[1])
      ]_vars

IsBuilder(op) == op \in {"create_volcano_config", "create_regional_config"}

\* The location grid, layers and phase-count thresholds of the archetype a
\* builder is for: a 100 x 100 x 30 grid, 37 seven-field layers from -6 km
\* and thresholds 6 / 3 for the volcano; a 201 x 201 x 61 grid, 4 layers
\* from 0 km and thresholds 8 / 4 for the region.
ArchetypeValues(op, cfg) ==
    LET g == cfg.locgrid
        volcano == op = "create_volcano_config"
    IN  /\ <<g.num_grid_x, g.num_grid_y, g.num_grid_z>>
              = IF volcano THEN <<100, 100, 30>> ELSE <<201, 201, 61>>
        /\ <<g.d_grid_x, g.d_grid_y, g.d_grid_z>> = <<10000, 10000, 10000>>
        /\ Len(cfg.layer) = IF volcano THEN 37 ELSE 4
        /\ cfg.layer[1][1] = IF volcano THEN -60000 ELSE 0
        /\ cfg.locmethod.min_num_phases = IF volcano THEN 6 ELSE 8
        /\ cfg.locmethod.min_num_s_phases = IF volcano THEN 3 ELSE 4

\* C16: each preset builder returns, for every origin pair, a configuration
\* whose transform origin is the pair, whose location grid, layers and
\* phase-count thresholds are the archetype's, and which renders.
C16_PresetBuilds ==
    IsBuilder(result.op) =>
        /\ result.err = ""
        /\ config.trans.lat_orig = Some(gargs.lat_orig)
        /\ config.trans.lon_orig = Some(gargs.lon_orig)
        /\ ArchetypeValues(result.op, config)
        /\ write_complete_control_file(config).err = ""

\* What the builder of the last call returns for the same origin and an
\* empty override map.
Archetype ==
    IF result.op = "create_volcano_config"
    THEN create_volcano_config(gargs.lat_orig, gargs.lon_orig, <<>>)
    ELSE create_regional_config(gargs.lat_orig, gargs.lon_orig, <<>>)

\* C17: a builder returns, whatever the override map holds, the archetype
\* with every override that names one of its fields applied; an override
\* of an unknown name raises nothing and changes no field.
C17_OverridesApplied ==
    IsBuilder(result.op) =>
        /\ result.err = ""
        /\ Archetype.err = ""
        /\ DOMAIN config = DOMAIN Archetype.cfg
        /\ \A f \in DOMAIN config :
              LET hits == { i \in 1..Len(gargs.kwargs) : gargs.kwargs[i][1] = f }
              IN  config[f] = IF hits = {} THEN Archetype.cfg[f]
                              ELSE gargs.kwargs[CHOOSE i \in hits : TRUE][2]

\* The last call was given a local inventory path that names no file.
AbsentInventory(op, args) ==
    /\ op \in {"modify_from_args", "add_station_from_inventory"}
    /\ args.inventory = Some("test_inventory.txt")

C19_StationSection ==
    Len(config.gtsrce_stations) >= 1 =>
        LET sec == get_gtsrce_section(config)
            n == Len(config.gtsrce_stations)
        IN  /\ sec.err = ""
            /\ Len(sec.lines) = n + 1
            /\ Len(sec.lines[1]) = 1 /\ sec.lines[1][1].t = "hash"
            /\ \A i \in 1..n :
                  LET parts == Split(sec.lines[i + 1])
                  IN  /\ parts[1] = W("GTSRCE")
                      /\ parts[2] = W(config.gtsrce_stations[i].label)
                      /\ \A j \in 3..Len(parts) : parts[j].t # "hash"

\* Three stations, two of them of the same code, the third of another: the
\* section has four lines.
C19_Witness ==
    /\ Len(config.gtsrce_stations) = 3
    /\ config.gtsrce_stations[1].label = config.gtsrce_stations[2].label
    /\ config.gtsrce_stations[3].label # config.gtsrce_stations[1].label
    /\ Len(get_gtsrce_section(config).lines) = 4

\* The numbers of decimals the claim gives for the numeric fields of a
\* line, by keyword: TRANS latitude, longitude 8 and rotation 2; grid counts
\* 0, origins and spacings 3; station elevation (the last field) 3; layer
\* fields 2.  An empty sequence for a line the claim does not speak of.
ClaimedDecimals(parts) ==
    LET k == TokText(parts[1])
    IN  CASE k = "TRANS" -> <<8, 8, 2>>
          [] k \in {"LOCGRID", "VGGRID"} -> <<0, 0, 0, 3, 3, 3, 3, 3, 3>>
          [] k = "LAYER" -> <<2, 2, 2, 2, 2, 2, 2>>
          [] OTHER -> <<>>

\* The number tokens of a line, in order.
Numbers(parts) == SelectSeq(parts, LAMBDA tok : tok.t = "num")

\* C20: in a written document every numeric field has the number of
\* decimals of its statement kind, whatever its value: 8 for the transform
\* latitude and longitude and 2 for its rotation, 3 for grid origins and
\* spacings, 0 for counts, 3 for a station's elevation, 2 for layer fields.
C20_FixedDecimals ==
    (result.op = "write_complete_control_file" /\ result.err = "") =>
        \A i \in 1..Len(file[1]) :
            LET parts == Split(file[1][i])
                nums == Numbers(parts)
            IN  (Len(parts) > 0 /\ parts[1].t = "word") =>
                  /\ \A j \in 1..Len(ClaimedDecimals(parts)) :
                        /\ j <= Len(nums)
                        /\ Decimals(nums[j]) = ClaimedDecimals(parts)[j]
                  /\ TokText(parts[1]) = "GTSRCE" =>
                        Decimals(nums[Len(nums)]) = 3

\* C21: a location grid constructed with no arguments has 101 x 101 x 51
\* points, spacing 1.0 on every axis and origin (0, 0, 0), and renders as
\* the single-space-separated line
\* 'LOCGRID 101 101 51 0.000 0.000 0.000 1.000 1.000 1.000 PROB_DENSITY SAVE'.
C21_DefaultLocGrid ==
    (grid # None /\ gargs = LocGridDefaults /\ grid[1].kind = "LOCGRID") =>
        LET g == grid[1]
        IN  /\ g.num_grid_x = 101 /\ g.num_grid_y = 101 /\ g.num_grid_z = 51
            /\ g.d_grid_x = 10000 /\ g.d_grid_y = 10000 /\ g.d_grid_z = 10000
            /\ g.orig_grid_x = 0 /\ g.orig_grid_y = 0 /\ g.orig_grid_z = 0
            /\ GridStr(g) =
                 <<W("LOCGRID"), SP(1), I(101), SP(1), I(101), SP(1), I(51),
                   SP(1), N(0, "f3"), SP(1), N(0, "f3"), SP(1), N(0, "f3"),
                   SP(1), N(10000, "f3"), SP(1), N(10000, "f3"), SP(1),
                   N(10000, "f3"), SP(1), W("PROB_DENSITY"), SP(1), W("SAVE")>>

\* C22: a station constructed as (label, lat, lon, fourth value) with the
\* default depth correction renders as 'GTSRCE', the label, 'LATLON', lat
\* with 6 decimals, lon with 6 decimals, the fourth value with 3 decimals,
\* then 0.000, all separated by single spaces with no trailing whitespace.
C22_StationLine ==
    \A i \in 1..Len(config.gtsrce_stations) :
        LET g == config.gtsrce_stations[i]
        IN  g.depth_corr = 0 =>
                GTSrceStr(g) =
                    <<W("GTSRCE"), SP(1), W(g.label), SP(1), W("LATLON"),
                      SP(1), N(g.lat_sta, "f6"), SP(1), N(g.lon_sta, "f6"),
                      SP(1), N(g.elev, "f3"), SP(1), N(0, "f3")>>

\* C23: in every state reached through the operations that set velocity
\* layers (construction, the named velocity-model preset of
\* modify_from_args, setup_basic_velocity_model, loading LAYER lines), every
\* velocity layer is a 7-field tuple, so rendering the layer section never
\* fails and gives one LAYER line with 7 numeric fields per layer.
C23_SevenFieldLayers ==
    /\ \A i \in 1..Len(config.layer) : Len(config.layer[i]) = 7
    /\ LET r == get_layer_section(config)
       IN  /\ r.err = ""
           /\ Len(r.lines) = 1 + Len(config.layer)
           /\ \A k \in 2..Len(r.lines) :
                LET parts == Split(r.lines[k])
                IN  /\ Len(parts) = 8
                    /\ TokText(parts[1]) = "LAYER"
                    /\ \A j \in 2..8 : parts[j].t = "num"

C25_UniformSpacing ==
    /\ grid # None =>
          LET g == grid[1] IN
          /\ gargs.d_xyz # None =>
                /\ g.d_grid_x = gargs.d_xyz[1] /\ g.d_grid_y = gargs.d_xyz[1]
                /\ g.d_grid_z = gargs.d_xyz[1]
          /\ (gargs.d_xyz = None /\ gargs.d_xy # None) =>
                /\ g.d_grid_x = gargs.d_xy[1] /\ g.d_grid_y = gargs.d_xy[1]
                /\ g.d_grid_z = gargs.d_grid_z
          /\ gargs.orig_grid_x = None =>
                2 * g.orig_grid_x = -(g.num_grid_x * g.d_grid_x)
          /\ gargs.orig_grid_y = None =>
                2 * g.orig_grid_y = -(g.num_grid_y * g.d_grid_y)
    /\ (result.op = "setup_grid_from_km" /\ result.err = "") =>
          LET g == config.locgrid IN
          /\ input.d_xyz # None =>
                /\ g.d_grid_x = input.d_xyz[1] /\ g.d_grid_y = input.d_xyz[1]
                /\ g.d_grid_z = input.d_xyz[1]
          /\ (input.d_xyz = None /\ input.d_xy # None) =>
                /\ g.d_grid_x = input.d_xy[1] /\ g.d_grid_y = input.d_xy[1]
                /\ g.d_grid_z = input.dz
          /\ g.num_grid_x = Ceil(input.kmx, g.d_grid_x)
          /\ g.num_grid_y = Ceil(input.kmy, g.d_grid_y)
          /\ g.num_grid_z = Ceil(input.kmz, g.d_grid_z)

\* Both uniform spacings were given together with per-axis spacings that
\* differ from them, to a constructor with the origins unset and to
\* setup_grid_from_km, and the counts depend on which one wins.
C25_Witness ==
    /\ grid # None /\ result.op = "setup_grid_from_km"
    /\ gargs.d_xyz # None /\ gargs.d_xy # None
    /\ gargs.d_xy[1] # gargs.d_xyz[1]
    /\ gargs.d_grid_x \notin {gargs.d_xy[1], gargs.d_xyz[1]}
    /\ gargs.orig_grid_x = None
    /\ Ceil(input.kmx, input.d_xy[1]) # Ceil(input.kmx, input.d_xyz[1])
    /\ Ceil(input.kmx, input.dx) # Ceil(input.kmx, input.d_xyz[1])

\* The number of (station, phase) pairs of a station -> phase -> errors
\* mapping.
RECURSIVE PairCount(_)
PairCount(m) == IF Len(m) = 0 THEN 0 ELSE Len(Head(m)[2]) + PairCount(Tail(m))

\* The (station, phase) pairs of the mapping a batch call was given.
BatchPairs(op, args) ==
    IF op = "add_eqsta_errors"
    THEN UNION { { <<args[i][1], args[i][2][j][1]>> :
                      j \in 1..Len(args[i][2]) } : i \in 1..Len(args) }
    ELSE { <<args[1][i][1], args[2]>> : i \in 1..Len(args[1]) }

\* The number of entries one call is to append.
Appended(op, args) ==
    CASE op = "add_eqsta_errors" -> PairCount(args)
      [] op = "add_eqsta_simple" -> Len(args[1])
      [] OTHER -> 1

\* C26: add_eqsta_single appends exactly one station-phase error per call
\* and never merges or replaces, also when the (label, phase) pair is
\* already present; the batch variants append exactly one entry per
\* (station, phase) pair of their mapping; every call (add_station
\* included) leaves the earlier entries at their positions with their
\* values, so the length grows by exactly the number of entries appended.
C26_PhaseErrorsAppended ==
    [][LET old == config.eqsta_commands
           new == config'.eqsta_commands
           op == result'.op
           added == (Len(old) + 1)..Len(new)
       IN  /\ Len(new) = Len(old) + Appended(op, input')
           /\ \A i \in 1..Len(old) : new[i] = old[i]
           /\ op = "add_eqsta_single" =>
                /\ new[Len(new)].label = input'[1]
                /\ new[Len(new)].phase = input'[2]
                /\ new[Len(new)].error = input'[3]
                /\ new[Len(new)].error_report = input'[4]
           /\ op \in {"add_eqsta_errors", "add_eqsta_simple"} =>
                /\ \A pr \in BatchPairs(op, input') :
                     Cardinality({ k \in added : /\ new[k].label = pr[1]
                                                 /\ new[k].phase = pr[2] }) = 1
                /\ \A k \in added :
                     <<new[k].label, new[k].phase>> \in BatchPairs(op, input')
      ]_vars

\* A single call added (VT01, S) with one error, a batch call then added
\* (VT01, S) again with another: both entries are in the collection, the
\* earlier one first.
C26_Witness ==
    /\ ops = <<"add_eqsta_single", "add_eqsta_errors">>
    /\ Len(config.eqsta_commands) = 1 + PairCount(input)
    /\ \E j \in 2..Len(config.eqsta_commands) :
          /\ config.eqsta_commands[j].label = config.eqsta_commands[1].label
          /\ config.eqsta_commands[j].phase = config.eqsta_commands[1].phase
          /\ config.eqsta_commands[j].error # config.eqsta_commands[1].error

\* The lines of a text whose first token is one of keys (a keyword, or the
\* text of a comment line).
LinesOf(text, keys) ==
    SelectSeq(text, LAMBDA line :
        /\ Len(Split(line)) > 0
        /\ TokText(Split(line)[1]) \in keys)

\* The sections both documents have, each by the first tokens of its lines.
SharedSections ==
    { {"# Basic control parameters", "CONTROL"},
      {"# Transform command", "TRANS"},
      {"# Signature and comments", "LOCSIG", "LOCCOM"},
      {"LOCSEARCH"},
      {"# Location grid", "LOCGRID"},
      {"LOCMETH"} }

\* The statements the reduced document leaves out.
LeftOut ==
    {"VGOUT", "GTFILES", "EQFILES", "LOCFILES", "LOCHYPOUT",
     "EQMECH", "EQMODE", "EQEVENT", "EQQUAL2ERR"}

\* C27: the reduced document is built from the same records as the complete
\* one: in the same configuration its control, transform,
\* signature/comment, search, location-grid and method sections are
\* text-identical to those of the complete document, and it holds no I/O
\* path declaration (VGOUT, GTFILES, EQFILES, LOCFILES, LOCHYPOUT) and no
\* mechanism/event-mode line (EQMECH, EQMODE, EQEVENT, EQQUAL2ERR).
C27_ReducedSharesRecords ==
    (result.op = "write_scp_control_file" /\ result.err = "") =>
        LET scp == file[1]
            full == CompleteSections(config)
            whole == write_complete_control_file(config)
            built == [i \in 1..Len(full) |-> full[i].lines]
        IN  /\ LinesOf(scp, LeftOut) = <<>>
            /\ \A keys \in SharedSections :
                 /\ LinesOf(scp, keys) # <<>>
                 /\ \E i \in 1..Len(built) : built[i] = LinesOf(scp, keys)
                 /\ whole.err = "" =>
                        LinesOf(scp, keys) = LinesOf(whole.text, keys)

\* The reduced document was written for a configuration whose origin,
\* grids and texts were changed and that has a station, and the complete
\* document renders for it too.
C27_Witness ==
    /\ result.op = "write_scp_control_file" /\ result.err = ""
    /\ write_complete_control_file(config).err = ""
    /\ \/ config.locgrid # NLLocConfig.locgrid
       \/ config.locsig # NLLocConfig.locsig
       \/ Len(config.gtsrce_stations) > 0
    /\ file # None /\ file[1] = write_scp_control_file(config).text

\* Whether a comma-separated string was given with at least n parts.
Given(arg, n) == arg # None /\ Len(arg[1]) >= n

\* int(a / b) + 1 for a non-negative extent a and a positive spacing b.
Count(a, b) == (a \div b) + 1

\* C28: in modify_from_args, a grid-extent string 'width,height,spacing'
\* replaces the location grid and the velocity grid with grids whose x/y
\* counts and spacings come from the string, each grid keeping its own z
\* count, z spacing and z origin; a depth-range string 'depth,spacing'
\* replaces both grids' z count and z spacing, each grid keeping its own
\* x/y counts and spacings, and sets origin-z to -5.0 on both; in both
\* cases origin-x/y of the replaced grids are -(count * spacing) / 2 again;
\* a string with fewer parts than required (3, resp. 2) changes neither
\* grid.
C28_GridStrings ==
    [][(result'.op = "modify_from_args" /\ result'.err = "") =>
        \A name \in {"locgrid", "vggrid"} :
            LET old == config[name]
                new == config'[name]
                kw == input'
                byGrid == Given(kw.gridkm, 3)
                byDepth == Given(kw.depthkm, 2)
            IN  /\ byGrid =>
                     LET w == FloatOf(kw.gridkm[1][1])
                         h == FloatOf(kw.gridkm[1][2])
                         s == FloatOf(kw.gridkm[1][3])
                     IN  /\ new.num_grid_x = Count(w, s)
                         /\ new.num_grid_y = Count(h, s)
                         /\ new.d_grid_x = s /\ new.d_grid_y = s
                /\ ~byGrid =>
                     /\ new.num_grid_x = old.num_grid_x
                     /\ new.num_grid_y = old.num_grid_y
                     /\ new.d_grid_x = old.d_grid_x
                     /\ new.d_grid_y = old.d_grid_y
                /\ byDepth =>
                     LET d == FloatOf(kw.depthkm[1][1])
                         s == FloatOf(kw.depthkm[1][2])
                     IN  /\ new.num_grid_z = Count(d, s)
                         /\ new.d_grid_z = s
                         /\ new.orig_grid_z = -50000
                /\ ~byDepth =>
                     /\ new.num_grid_z = old.num_grid_z
                     /\ new.d_grid_z = old.d_grid_z
                     /\ new.orig_grid_z = old.orig_grid_z
                /\ (byGrid \/ byDepth) =>
                     /\ 2 * new.orig_grid_x = -(new.num_grid_x * new.d_grid_x)
                     /\ 2 * new.orig_grid_y = -(new.num_grid_y * new.d_grid_y)
                /\ ~(byGrid \/ byDepth) => new = old
      ]_vars

\* A depth-range string alone was applied to a configuration whose location
\* grid a loaded document had given an origin-x that is not
\* -(count * spacing) / 2: the new grid has the loaded counts, the depth of
\* the string and the derived origin.
C28_Witness ==
    /\ result.op = "modify_from_args" /\ result.err = "" /\ Len(ops) = 1
    /\ input.gridkm = None /\ Given(input.depthkm, 2)
    /\ config.locgrid.num_grid_x = 11 /\ config.locgrid.num_grid_z = 2
    /\ config.locgrid.orig_grid_x = -55000
    /\ config.locgrid.orig_grid_z = -50000
    /\ config.vggrid.num_grid_x = 200 /\ config.vggrid.num_grid_z = 2

\* The lines of a document the loader reads: all of them, or those before
\* the first line that raises, where the loop ends.
ReadLines(doc) ==
    LET bad == { i \in 1..Len(doc) : Unparsable(doc[i]) }
    IN  IF bad = {} THEN doc
        ELSE SubSeq(doc, 1, (CHOOSE i \in bad : \A j \in bad : i <= j) - 1)

\* The lines of keyword k the loader reads and accepts: long enough for
\* the handler, in any letter case.
AcceptedLines(doc, k) ==
    SelectSeq(ReadLines(doc), LAMBDA line :
        /\ ~Ignorable(line)
        /\ TokText(Split(line)[1]) \in CaseVariants(k)
        /\ ~TooShort(line))

\* old is a prefix of new, n entries shorter.
GrownBy(old, new, n) ==
    /\ Len(new) = Len(old) + n
    /\ \A i \in 1..Len(old) : new[i] = old[i]

\* C29: loading is additive and not idempotent: load_from_file appends to
\* the stations, station-phase errors and velocity layers the
\* configuration holds already, and every accepted GTSRCE line appends one
\* station and one default P-phase error; a document with N accepted
\* GTSRCE lines, M accepted EQSTA lines and L accepted LAYER lines grows
\* the three collections by N, N + M and L on every load, so loading it
\* twice doubles the increments.
C29_LoadAppends ==
    [][(ops' # ops /\ result'.op = "load_from_file") =>
        LET doc == IF input' = None THEN <<>> ELSE input'[1]
            n == Len(AcceptedLines(doc, "GTSRCE"))
            m == Len(AcceptedLines(doc, "EQSTA"))
            l == Len(AcceptedLines(doc, "LAYER"))
            added == (Len(config.eqsta_commands) + 1)..Len(config'.eqsta_commands)
        IN  /\ GrownBy(config.gtsrce_stations, config'.gtsrce_stations, n)
            /\ GrownBy(config.eqsta_commands, config'.eqsta_commands, n + m)
            /\ GrownBy(config.layer, config'.layer, l)
            /\ \A i \in (Len(config.gtsrce_stations) + 1)..Len(config'.gtsrce_stations) :
                 \E k \in added :
                    /\ config'.eqsta_commands[k].label = config'.gtsrce_stations[i].label
                    /\ config'.eqsta_commands[k].phase = "P"
                    /\ config'.eqsta_commands[k].error = 0
                    /\ config'.eqsta_commands[k].error_report = 0
      ]_vars

\* The same document, with one GTSRCE, one EQSTA and one LAYER line, was
\* loaded twice into a new configuration: two stations of the same label,
\* four station-phase errors, and two layers after the 29 default ones.
C29_Witness ==
    /\ ops = <<"load_from_file", "load_from_file">>
    /\ input = Some(ValidLines) /\ result.ret = TRUE
    /\ Len(AcceptedLines(ValidLines, "GTSRCE")) = 1
    /\ Len(AcceptedLines(ValidLines, "EQSTA")) = 1
    /\ Len(AcceptedLines(ValidLines, "LAYER")) = 1
    /\ Len(config.gtsrce_stations) = 2
    /\ config.gtsrce_stations[1] = config.gtsrce_stations[2]
    /\ Len(config.eqsta_commands) = 4
    /\ Len(config.layer) = Len(NLLocConfig.layer) + 2
    /\ config.layer[Len(config.layer)] = config.layer[Len(config.layer) - 1]

\* C30: a write of the complete or of the reduced document that fails
\* because the transform origin is unset fails while the sections are
\* assembled, before the output file is opened: no file is created or
\* truncated, nothing is written and the configuration is unchanged; so
\* once the origin is set, writing again succeeds.
C30_FailedWriteIsClean ==
    [][(ops' # ops /\ IsWrite(result'.op)) =>
        /\ ~OriginSet(config) =>
              /\ result'.err = "ValueError"
              /\ file' = file
              /\ config' = config
        /\ OriginSet(config) =>
              /\ result'.err = ""
              /\ file' # None
              /\ config' = config]_vars
====
